---------------------------- MODULE Spec2Model ----------------------------
(***************************************************************************)
(* A model of arjp, a recursive-descent JSON parser (src/src/parser.rs).   *)
(*                                                                         *)
(* A character is its Unicode code point, a text is a sequence of          *)
(* characters, and the cursor `position` is a byte offset into the UTF-8   *)
(* encoding of the text, as in the source.  The parser runs as a machine   *)
(* with an explicit call stack: one frame per active routine, one action   *)
(* per basic block of a routine, one action per loop iteration.            *)
(***************************************************************************)
EXTENDS Integers, Sequences, FiniteSets, TLC

VARIABLES
    doc,      \* the lexemes the input text is made of (the text is their concatenation)
    parser,   \* one JsonParser and the state of the calls running on it
    peer      \* a second JsonParser, of another thread, over a text of its own

vars == <<doc, parser, peer>>

-----------------------------------------------------------------------------
(* Characters *)

Ch == [ n |-> 110, u |-> 117, l |-> 108, t |-> 116, r |-> 114, e |-> 101,
        f |-> 102, a |-> 97, s |-> 115, b |-> 98, i |-> 105, g |-> 103,
        x |-> 120, A |-> 65, D |-> 68, E |-> 69, F |-> 70, N |-> 78, T |-> 84,
        quote |-> 34, backslash |-> 92, slash |-> 47,
        lbracket |-> 91, rbracket |-> 93, lbrace |-> 123, rbrace |-> 125,
        comma |-> 44, colon |-> 58, minus |-> 45, plus |-> 43, dot |-> 46,
        d0 |-> 48, d1 |-> 49, d2 |-> 50, d3 |-> 51, d6 |-> 54, d7 |-> 55, d8 |-> 56,
        d9 |-> 57,
        space |-> 32, tab |-> 9, lf |-> 10, cr |-> 13,
        backspace |-> 8, formfeed |-> 12,
        nbsp |-> 160,          \* U+00A0, whitespace, two bytes
        eacute |-> 233,        \* U+00E9, two bytes
        smiley |-> 9786,       \* U+263A, three bytes
        grin |-> 128512 ]      \* U+1F600, four bytes

\* char::len_utf8
len_utf8(c) ==
    IF c < 128 THEN 1 ELSE IF c < 2048 THEN 2 ELSE IF c < 65536 THEN 3 ELSE 4

\* char::is_whitespace (the Unicode White_Space property)
is_whitespace_space_only(c) == c = Ch.space

is_whitespace(c) ==
    \/ c \in 9..13
    \/ c \in {32, 133, 160, 5760, 8232, 8233, 8239, 8287, 12288}
    \/ c \in 8192..8202

\* char::is_ascii_digit
is_ascii_digit(c) == c \in 48..57

\* char::to_digit(16): the digit's value, or -1 for None
to_digit16(c) ==
    IF c \in 48..57 THEN c - 48
    ELSE IF c \in 97..102 THEN c - 87
    ELSE IF c \in 65..70 THEN c - 55
    ELSE -1

\* char::from_u32 succeeds: a Unicode scalar value
is_scalar_value(code) == code \in 0..1114111 /\ code \notin 55296..57343

-----------------------------------------------------------------------------
(* Texts and byte offsets *)

RECURSIVE ByteLen(_)
ByteLen(text) ==
    IF text = <<>> THEN 0 ELSE len_utf8(Head(text)) + ByteLen(Tail(text))

Prefix(text, k) == SubSeq(text, 1, k)
Suffix(text, k) == SubSeq(text, k + 1, Len(text))

\* &input[p..] does not panic: p is within the text and on a character boundary
IsCharBoundary(text, p) ==
    \E k \in 0..Len(text) : ByteLen(Prefix(text, k)) = p

\* &input[p..]
SliceFrom(text, p) ==
    IF IsCharBoundary(text, p)
    THEN Suffix(text, CHOOSE k \in 0..Len(text) : ByteLen(Prefix(text, k)) = p)
    ELSE <<>>

\* str::starts_with
starts_with(text, pat) ==
    Len(text) >= Len(pat) /\ Prefix(text, Len(pat)) = pat

RECURSIVE Flatten(_)
Flatten(ss) == IF ss = <<>> THEN <<>> ELSE Head(ss) \o Flatten(Tail(ss))

SeqsUpTo(S, n) == UNION { [1..k -> S] : k \in 0..n }

-----------------------------------------------------------------------------
(* Values and errors *)

Null == [t |-> "Null"]
Boolean(b) == [t |-> "Boolean", b |-> b]
Number(x) == [t |-> "Number", n |-> x]
String(s) == [t |-> "String", s |-> s]
Array(a) == [t |-> "Array", a |-> a]
Object(m) == [t |-> "Object", m |-> m]

Ok(v) == [ok |-> TRUE, v |-> v]
\* ParseError::new(message); a formatted message is kept up to its first argument
Err(message) == [ok |-> FALSE, e |-> message]
NoRet == [ok |-> FALSE, e |-> ""]

-----------------------------------------------------------------------------
(* The machine *)

Top(s) == s.stack[Len(s.stack)]
Callers(s) == Prefix(s.stack, Len(s.stack) - 1)
At(s, fn, pc) ==
    /\ ~s.aborted
    /\ s.stack # <<>>
    /\ Top(s).fn = fn
    /\ Top(s).pc = pc

\* the running routine goes on as `frame`
Goto(s, frame) == [s EXCEPT !.stack = Append(Callers(s), frame), !.ret = NoRet]

\* the running routine, going on as `frame`, calls the routine `callee`
Call(s, frame, callee) ==
    [s EXCEPT !.stack = Append(Append(Callers(s), frame), callee), !.ret = NoRet]

\* the running routine returns r to its caller; parse() returns to the program
Return(s, r) ==
    IF Len(s.stack) = 1
    THEN [s EXCEPT !.stack = <<>>, !.ret = NoRet, !.results = Append(@, r)]
    ELSE [s EXCEPT !.stack = Callers(s), !.ret = r]

\* position += k; remaining = &input[position..]
AdvanceBy(s, k) ==
    LET p == s.position + k
    IN  [s EXCEPT !.position = p,
                  !.remaining = SliceFrom(s.input, p),
                  !.aborted = s.aborted \/ ~IsCharBoundary(s.input, p)]

\* remaining.chars().next(), -1 for None
peek(s) == IF s.remaining = <<>> THEN -1 ELSE Head(s.remaining)

\* a next_char that counts one byte for every character
next_char_one_byte(s) == IF s.remaining = <<>> THEN s ELSE AdvanceBy(s, 1)

\* a next_char that moves on at the end of the input too
next_char_past_end(s) ==
    IF s.remaining = <<>> THEN AdvanceBy(s, 1)
    ELSE AdvanceBy(s, len_utf8(Head(s.remaining)))

next_char(s) ==
    IF s.remaining = <<>> THEN s ELSE AdvanceBy(s, len_utf8(Head(s.remaining)))

\* JsonParser::new
new(text) ==
    [input |-> text, position |-> 0, remaining |-> text,
     stack |-> <<>>, ret |-> NoRet, results |-> <<>>, aborted |-> FALSE]


-----------------------------------------------------------------------------
(* skip_whitespace: one action per iteration of its loop.  The routine is   *)
(* inlined at each of its call sites: a frame whose pc is in WsPcs is       *)
(* running it, and the block after the call starts once ws_done holds.      *)

WsPcs == {"ws_lead", "ws_trail", "ws_value", "ws_open", "ws_elem", "ws_comma",
          "ws_key", "ws_member"}

\* the loop's exit: no character left, or the next one is not whitespace
ws_done(s) == ~is_whitespace(peek(s))

at_skip_whitespace(s) ==
    /\ ~s.aborted
    /\ s.stack # <<>>
    /\ Top(s).pc \in WsPcs
    /\ ~ws_done(s)

skip_whitespace(s) == next_char(s)

-----------------------------------------------------------------------------
(* parse *)

ValueFrame == [fn |-> "parse_value", pc |-> "ws_value"]

\* a call of parse() by the program
\* a parse() that starts over at the head of the input
call_parse_rewound(s) ==
    [s EXCEPT !.stack = <<[fn |-> "parse", pc |-> "ws_lead"]>>,
              !.position = 0, !.remaining = s.input]

at_call_parse(s) == ~s.aborted /\ s.stack = <<>>
call_parse(s) == [s EXCEPT !.stack = <<[fn |-> "parse", pc |-> "ws_lead"]>>]

\* let result = self.parse_value()?  (the call)
at_parse(s) == At(s, "parse", "ws_lead") /\ ws_done(s)
parse(s) ==
    Call(s, [fn |-> "parse", pc |-> "ret_value"], ValueFrame)

\* let result = self.parse_value()?  (the return)
at_parse_result(s) == At(s, "parse", "ret_value")
parse_result(s) ==
    IF s.ret.ok
    THEN Goto(s, [fn |-> "parse", pc |-> "ws_trail", result |-> s.ret.v])
    ELSE Return(s, s.ret)

\* a parse that does not look at what follows the value
parse_end_lenient(s) == Return(s, Ok(Top(s).result))

\* if !self.remaining.is_empty() { Err } else { Ok(result) }
at_parse_end(s) == At(s, "parse", "ws_trail") /\ ws_done(s)
parse_end(s) ==
    IF s.remaining # <<>>
    THEN Return(s, Err("Extra characters after JSON value"))
    ELSE Return(s, Ok(Top(s).result))

-----------------------------------------------------------------------------
(* parse_value: the routine it selects runs in its place *)

\* match c { .. }
dispatch(s, c) ==
    CASE c = Ch.n -> Goto(s, [fn |-> "parse_null", pc |-> "start"])
      [] c \in {Ch.t, Ch.f} -> Goto(s, [fn |-> "parse_boolean", pc |-> "start"])
      [] c = Ch.quote -> Goto(s, [fn |-> "parse_string", pc |-> "open"])
      [] c = Ch.lbracket -> Goto(s, [fn |-> "parse_array", pc |-> "open"])
      [] c = Ch.lbrace -> Goto(s, [fn |-> "parse_object", pc |-> "open"])
      [] is_ascii_digit(c) \/ c = Ch.minus ->
            Goto(s, [fn |-> "parse_number", pc |-> "sign"])
      [] c = -1 -> Return(s, Err("Unexpected end of input"))
      [] OTHER -> Return(s, Err("Unexpected character"))

\* a parse_value that takes the character with next_char
parse_value_consuming(s) == dispatch(next_char(s), peek(s))

at_parse_value(s) == At(s, "parse_value", "ws_value") /\ ws_done(s)
parse_value(s) == dispatch(s, peek(s))

-----------------------------------------------------------------------------
(* parse_null, parse_boolean *)

lit_null == <<Ch.n, Ch.u, Ch.l, Ch.l>>
lit_true == <<Ch.t, Ch.r, Ch.u, Ch.e>>
lit_false == <<Ch.f, Ch.a, Ch.l, Ch.s, Ch.e>>

\* a parse_null that takes `nul` for the literal
parse_null_lenient(s) ==
    IF starts_with(s.remaining, <<Ch.n, Ch.u, Ch.l>>)
    THEN Return(AdvanceBy(s, 3), Ok(Null))
    ELSE Return(s, Err("Invalid null value"))

\* parser.parse_null() and parser.parse_boolean() called on a parser, as the
\* tests of the module call them
call_parse_null(s) == [s EXCEPT !.stack = <<[fn |-> "parse_null", pc |-> "start"]>>]
call_parse_boolean(s) ==
    [s EXCEPT !.stack = <<[fn |-> "parse_boolean", pc |-> "start"]>>]

at_parse_null(s) == At(s, "parse_null", "start")
parse_null(s) ==
    IF starts_with(s.remaining, lit_null)
    THEN Return(AdvanceBy(s, 4), Ok(Null))
    ELSE Return(s, Err("Invalid null value"))

at_parse_boolean(s) == At(s, "parse_boolean", "start")
parse_boolean(s) ==
    IF starts_with(s.remaining, lit_true)
    THEN Return(AdvanceBy(s, 4), Ok(Boolean(TRUE)))
    ELSE IF starts_with(s.remaining, lit_false)
    THEN Return(AdvanceBy(s, 5), Ok(Boolean(FALSE)))
    ELSE Return(s, Err("Invalid boolean value"))

-----------------------------------------------------------------------------
(* parse_string *)

\* the character a one-character escape stands for, -1 if it is none
escape_char_no_slash(e) ==
    CASE e = Ch.quote -> Ch.quote
      [] e = Ch.backslash -> Ch.backslash
      [] e = Ch.b -> Ch.backspace
      [] e = Ch.f -> Ch.formfeed
      [] e = Ch.n -> Ch.lf
      [] e = Ch.r -> Ch.cr
      [] e = Ch.t -> Ch.tab
      [] OTHER -> -1

escape_char(e) ==
    CASE e = Ch.quote -> Ch.quote
      [] e = Ch.backslash -> Ch.backslash
      [] e = Ch.slash -> Ch.slash
      [] e = Ch.b -> Ch.backspace
      [] e = Ch.f -> Ch.formfeed
      [] e = Ch.n -> Ch.lf
      [] e = Ch.r -> Ch.cr
      [] e = Ch.t -> Ch.tab
      [] OTHER -> -1

RECURSIVE BitOr(_, _)
BitOr(x, y) ==
    IF x = 0 THEN y
    ELSE IF y = 0 THEN x
    ELSE (IF x % 2 = 1 \/ y % 2 = 1 THEN 1 ELSE 0) + 2 * BitOr(x \div 2, y \div 2)

\* (digit as u16) << sh
Shl16(digit, sh) == (digit * 2^sh) % 65536

\* code |= (digit as u16) << (i * 4)
or_digit_little_endian(code, digit, i) == BitOr(code, Shl16(digit, (3 - i) * 4))

or_digit(code, digit, i) == BitOr(code, Shl16(digit, i * 4))

StringFrame(pc, result) == [fn |-> "parse_string", pc |-> pc, result |-> result]

\* self.next_char(); let mut result = String::with_capacity(16)
at_parse_string(s) == At(s, "parse_string", "open")
parse_string(s) == Goto(next_char(s), StringFrame("body", <<>>))

\* one iteration of the while loop, or the Err after it
at_parse_string_char(s) == At(s, "parse_string", "body")
parse_string_char(s) ==
    LET c == peek(s)
        result == Top(s).result
    IN  CASE c = -1 -> Return(s, Err("Unterminated string"))
          [] c = Ch.quote -> Return(next_char(s), Ok(String(result)))
          [] c = Ch.backslash ->
                LET s1 == next_char(s)
                    e == peek(s1)
                    s2 == next_char(s1)
                IN  CASE e = -1 -> Return(s2, Err("Unterminated string after escape"))
                      [] e = Ch.u ->
                            Goto(s2, [fn |-> "parse_string", pc |-> "unicode",
                                      result |-> result, code |-> 0, i |-> 3])
                      [] escape_char(e) # -1 ->
                            Goto(s2, StringFrame("body", Append(result, escape_char(e))))
                      [] OTHER -> Return(s2, Err("Invalid escape sequence"))
          [] OTHER -> Goto(next_char(s), StringFrame("body", Append(result, c)))

\* one iteration of for i in (0..4).rev()
at_parse_string_hex(s) == At(s, "parse_string", "unicode")
parse_string_hex(s) ==
    LET c == peek(s)
        s1 == next_char(s)
        f == Top(s)
    IN  IF c = -1 THEN Return(s1, Err("Incomplete unicode escape sequence"))
        ELSE IF to_digit16(c) = -1
        THEN Return(s1, Err("Invalid unicode escape sequence"))
        ELSE Goto(s1, [f EXCEPT !.code = or_digit(f.code, to_digit16(c), f.i),
                                !.i = f.i - 1,
                                !.pc = IF f.i = 0 THEN "push_code" ELSE "unicode"])

\* result.push(char::from_u32(code as u32).ok_or_else(..)?)
at_parse_string_code(s) == At(s, "parse_string", "push_code")
parse_string_code(s) ==
    LET f == Top(s)
    IN  IF is_scalar_value(f.code)
        THEN Goto(s, StringFrame("body", Append(f.result, f.code)))
        ELSE Return(s, Err("Invalid unicode code point"))

-----------------------------------------------------------------------------
(* parse_number *)

\* the value of a run of ASCII digits
RECURSIVE DigitsValue(_)
DigitsValue(ds) ==
    IF ds = <<>> THEN 0
    ELSE 10 * DigitsValue(Prefix(ds, Len(ds) - 1)) + (ds[Len(ds)] - 48)

\* the first index of text holding a character of cs, Len(text) + 1 if there is none
IndexOf(text, cs) ==
    IF \E k \in 1..Len(text) : text[k] \in cs
    THEN CHOOSE k \in 1..Len(text) :
            text[k] \in cs /\ \A j \in 1..(k - 1) : text[j] \notin cs
    ELSE Len(text) + 1

\* m * 10^e with m not a multiple of 10, or zero
RECURSIVE Normal(_, _)
Normal(m, e) ==
    IF m = 0 THEN [m |-> 0, e |-> 0]
    ELSE IF m % 10 = 0 THEN Normal(m \div 10, e + 1)
    ELSE [m |-> m, e |-> e]

\* num_str.parse::<f64>() of a literal the grammar of parse_number matched: the
\* number as a decimal m * 10^e.  Two literals get equal values here exactly when
\* they denote the same real number, which is when their f64 values are equal as
\* long as the literals have at most 15 significant digits and stay within f64's
\* range (the texts of this model do).
parse_f64(num_str) ==
    LET neg == num_str # <<>> /\ Head(num_str) = Ch.minus
        body == IF neg THEN Tail(num_str) ELSE num_str
        ie == IndexOf(body, {Ch.e, Ch.E})
        mant == Prefix(body, ie - 1)
        expo == Suffix(body, IF ie > Len(body) THEN Len(body) ELSE ie)
        id == IndexOf(mant, {Ch.dot})
        int == Prefix(mant, id - 1)
        frac == Suffix(mant, IF id > Len(mant) THEN Len(mant) ELSE id)
        eneg == expo # <<>> /\ Head(expo) = Ch.minus
        edigits == IF expo # <<>> /\ Head(expo) \in {Ch.minus, Ch.plus}
                   THEN Tail(expo) ELSE expo
        ev == IF eneg THEN 0 - DigitsValue(edigits) ELSE DigitsValue(edigits)
        mv == DigitsValue(int \o frac)
        n == Normal(mv, ev - Len(frac))
    IN  [n EXCEPT !.m = IF neg THEN 0 - n.m ELSE n.m]

NumberFrame(pc, num_str, has_digits) ==
    [fn |-> "parse_number", pc |-> pc, num_str |-> num_str, has_digits |-> has_digits]

\* if self.remaining.starts_with('-') { num_str.push('-'); self.next_char(); }
at_parse_number(s) == At(s, "parse_number", "sign")
parse_number(s) ==
    IF starts_with(s.remaining, <<Ch.minus>>)
    THEN Goto(next_char(s), NumberFrame("int", <<Ch.minus>>, FALSE))
    ELSE Goto(s, NumberFrame("int", <<>>, FALSE))

\* one iteration of one of the three digit loops
at_parse_number_digit(s) ==
    /\ ~s.aborted
    /\ s.stack # <<>>
    /\ Top(s).fn = "parse_number"
    /\ Top(s).pc \in {"int", "frac", "exp"}
    /\ is_ascii_digit(peek(s))
parse_number_digit(s) ==
    Goto(next_char(s),
         NumberFrame(Top(s).pc, Append(Top(s).num_str, peek(s)), TRUE))

\* num_str.parse::<f64>().map(JsonValue::Number)
number_end(s, num_str) == Return(s, Ok(Number(parse_f64(num_str))))

\* the exponent part, from a state after the integer and fraction parts
number_exponent(s, num_str) ==
    IF starts_with(s.remaining, <<Ch.e>>) \/ starts_with(s.remaining, <<Ch.E>>)
    THEN LET s1 == next_char(s)
             n1 == Append(num_str, peek(s))
         IN  IF starts_with(s1.remaining, <<Ch.plus>>)
                    \/ starts_with(s1.remaining, <<Ch.minus>>)
             THEN Goto(next_char(s1), NumberFrame("exp", Append(n1, peek(s1)), FALSE))
             ELSE Goto(s1, NumberFrame("exp", n1, FALSE))
    ELSE number_end(s, num_str)

\* after the integer digits
at_parse_number_int(s) == At(s, "parse_number", "int") /\ ~is_ascii_digit(peek(s))
parse_number_int(s) ==
    LET f == Top(s)
    IN  IF ~f.has_digits
        THEN Return(s, Err("Number must contain at least one digit"))
        ELSE IF starts_with(s.remaining, <<Ch.dot>>)
        THEN Goto(next_char(s), NumberFrame("frac", Append(f.num_str, Ch.dot), FALSE))
        ELSE number_exponent(s, f.num_str)

\* after the fraction digits
parse_number_frac_lenient(s) == number_exponent(s, Top(s).num_str)

at_parse_number_frac(s) == At(s, "parse_number", "frac") /\ ~is_ascii_digit(peek(s))
parse_number_frac(s) ==
    LET f == Top(s)
    IN  IF ~f.has_digits
        THEN Return(s, Err("Decimal point must be followed by at least one digit"))
        ELSE number_exponent(s, f.num_str)

\* after the exponent digits
at_parse_number_exp(s) == At(s, "parse_number", "exp") /\ ~is_ascii_digit(peek(s))
parse_number_exp(s) ==
    LET f == Top(s)
    IN  IF ~f.has_digits
        THEN Return(s, Err("Exponent must be followed by at least one digit"))
        ELSE number_end(s, f.num_str)

-----------------------------------------------------------------------------
(* parse_array *)

ArrayFrame(pc, values) == [fn |-> "parse_array", pc |-> pc, values |-> values]

\* self.next_char(); self.skip_whitespace(); let mut values = Vec::with_capacity(4)
\* a parse_array that refuses arrays below the first level
parse_array_depth_limited(s) ==
    IF Len(s.stack) > 2 THEN Return(s, Err("Unexpected character"))
    ELSE Goto(next_char(s), ArrayFrame("ws_open", <<>>))

at_parse_array(s) == At(s, "parse_array", "open")
parse_array(s) == Goto(next_char(s), ArrayFrame("ws_open", <<>>))

\* the empty array, or the first self.parse_value() of the loop
at_parse_array_first(s) == At(s, "parse_array", "ws_open") /\ ws_done(s)
parse_array_first(s) ==
    IF starts_with(s.remaining, <<Ch.rbracket>>)
    THEN Return(next_char(s), Ok(Array(Top(s).values)))
    ELSE Call(s, ArrayFrame("ret_elem", Top(s).values), ValueFrame)

\* a push that drops an element that failed and goes on
parse_array_push_lenient(s) ==
    IF s.ret.ok
    THEN Goto(s, ArrayFrame("ws_elem", Append(Top(s).values, s.ret.v)))
    ELSE Goto(s, ArrayFrame("ws_elem", Top(s).values))

\* values.push(self.parse_value()?)
at_parse_array_push(s) == At(s, "parse_array", "ret_elem")
parse_array_push_front(s) ==
    IF s.ret.ok
    THEN Goto(s, ArrayFrame("ws_elem", <<s.ret.v>> \o Top(s).values))
    ELSE Return(s, s.ret)

parse_array_push(s) ==
    IF s.ret.ok
    THEN Goto(s, ArrayFrame("ws_elem", Append(Top(s).values, s.ret.v)))
    ELSE Return(s, s.ret)

\* a match that has one arm for everything that is neither `]` nor `,`
parse_array_sep_merged(s) ==
    LET c == peek(s)
    IN  CASE c = Ch.rbracket -> Return(next_char(s), Ok(Array(Top(s).values)))
          [] c = Ch.comma -> Goto(next_char(s), ArrayFrame("ws_comma", Top(s).values))
          [] OTHER -> Return(s, Err("Expected comma or closing bracket"))

\* match self.remaining.chars().next() after an element
at_parse_array_sep(s) == At(s, "parse_array", "ws_elem") /\ ws_done(s)
parse_array_sep(s) ==
    LET c == peek(s)
    IN  CASE c = Ch.rbracket -> Return(next_char(s), Ok(Array(Top(s).values)))
          [] c = Ch.comma -> Goto(next_char(s), ArrayFrame("ws_comma", Top(s).values))
          [] c = -1 -> Return(s, Err("Unterminated array"))
          [] OTHER -> Return(s, Err("Expected comma or closing bracket"))

\* a loop that takes a `]` after a `,`
parse_array_loop_trailing_comma(s) ==
    IF starts_with(s.remaining, <<Ch.rbracket>>)
    THEN Return(next_char(s), Ok(Array(Top(s).values)))
    ELSE Call(s, ArrayFrame("ret_elem", Top(s).values), ValueFrame)

\* the next iteration's self.parse_value()
at_parse_array_loop(s) == At(s, "parse_array", "ws_comma") /\ ws_done(s)
parse_array_loop(s) == Call(s, ArrayFrame("ret_elem", Top(s).values), ValueFrame)

-----------------------------------------------------------------------------
(* parse_object *)

ObjectFrame(pc, map, key) ==
    [fn |-> "parse_object", pc |-> pc, map |-> map, key |-> key]

\* HashMap::insert
insert_keep_first(map, key, value) ==
    [k \in DOMAIN map \cup {key} |-> IF k \in DOMAIN map THEN map[k] ELSE value]

insert(map, key, value) ==
    [k \in DOMAIN map \cup {key} |-> IF k = key THEN value ELSE map[k]]

\* self.next_char(); self.skip_whitespace(); let mut map = HashMap::with_capacity(4)
at_parse_object(s) == At(s, "parse_object", "open")
parse_object(s) == Goto(next_char(s), ObjectFrame("ws_open", <<>>, <<>>))

\* the empty object, or the first key's self.parse_value()
at_parse_object_first(s) == At(s, "parse_object", "ws_open") /\ ws_done(s)
parse_object_first(s) ==
    IF starts_with(s.remaining, <<Ch.rbrace>>)
    THEN Return(next_char(s), Ok(Object(Top(s).map)))
    ELSE Call(s, ObjectFrame("ret_key", Top(s).map, <<>>), ValueFrame)

\* let key = match self.parse_value()? { JsonValue::String(s) => s, _ => return Err }
at_parse_object_key(s) == At(s, "parse_object", "ret_key")
parse_object_key(s) ==
    IF ~s.ret.ok THEN Return(s, s.ret)
    ELSE IF s.ret.v.t = "String"
    THEN Goto(s, ObjectFrame("ws_key", Top(s).map, s.ret.v.s))
    ELSE Return(s, Err("Object keys must be strings"))

\* the colon, then the member's self.parse_value()
at_parse_object_colon(s) == At(s, "parse_object", "ws_key") /\ ws_done(s)
\* a parse_object that takes the character it finds in the colon's place
parse_object_colon_consuming(s) ==
    IF ~starts_with(s.remaining, <<Ch.colon>>)
    THEN Return(next_char(s), Err("Expected colon after key in object"))
    ELSE Call(next_char(s), ObjectFrame("ret_member", Top(s).map, Top(s).key),
              ValueFrame)

parse_object_colon_optional(s) ==
    IF ~starts_with(s.remaining, <<Ch.colon>>)
    THEN Call(s, ObjectFrame("ret_member", Top(s).map, Top(s).key), ValueFrame)
    ELSE Call(next_char(s), ObjectFrame("ret_member", Top(s).map, Top(s).key),
              ValueFrame)

parse_object_colon(s) ==
    IF ~starts_with(s.remaining, <<Ch.colon>>)
    THEN Return(s, Err("Expected colon after key in object"))
    ELSE Call(next_char(s), ObjectFrame("ret_member", Top(s).map, Top(s).key),
              ValueFrame)

\* map.insert(key, self.parse_value()?)
at_parse_object_insert(s) == At(s, "parse_object", "ret_member")
parse_object_insert(s) ==
    IF s.ret.ok
    THEN Goto(s, ObjectFrame("ws_member", insert(Top(s).map, Top(s).key, s.ret.v), <<>>))
    ELSE Return(s, s.ret)

\* match self.remaining.chars().next() after a member
at_parse_object_sep(s) == At(s, "parse_object", "ws_member") /\ ws_done(s)
parse_object_sep(s) ==
    LET c == peek(s)
    IN  CASE c = Ch.rbrace -> Return(next_char(s), Ok(Object(Top(s).map)))
          [] c = Ch.comma -> Goto(next_char(s), ObjectFrame("ws_comma", Top(s).map, <<>>))
          [] c = -1 -> Return(s, Err("Unterminated object"))
          [] OTHER -> Return(s, Err("Expected comma or closing brace"))

\* the next iteration's key
at_parse_object_loop(s) == At(s, "parse_object", "ws_comma") /\ ws_done(s)
parse_object_loop(s) == Call(s, ObjectFrame("ret_key", Top(s).map, <<>>), ValueFrame)

-----------------------------------------------------------------------------
(* Input texts *)

MaxCalls == 2        \* calls of parse() on one parser
MaxLexemes == 4      \* lexemes of a text of CoreDocs
MaxLiveLexemes == 3  \* lexemes of a text of LiveDocs
MaxDepth == 3        \* containers open around the value of a text of NestDocs
MaxMembers == 3      \* members of an object of MemberDocs
MaxElements == 3     \* elements of an array of ElementDocs
MaxNumberLen == 3    \* characters after the first lexeme of a text of NumberDocs
MaxLiterals == 2     \* lexemes of a text of LiteralDocs
MaxPadded == 2       \* lexemes of a text of PaddedDocs, its whitespace apart
MaxPeerCalls == 1    \* calls of parse() on the second parser
MaxLoop == 4         \* lexemes after the opening bracket of a text of LoopDocs
MaxStringLen == 3    \* characters after the opening quote of a text of StringDocs

Lx == [ null |-> lit_null, true |-> lit_true, false |-> lit_false,
        str_a |-> <<Ch.quote, Ch.a, Ch.quote>>,
        str_b |-> <<Ch.quote, Ch.b, Ch.quote>>,
        one |-> <<Ch.d1>>, two |-> <<Ch.d2>>, three |-> <<Ch.d3>>,
        lbracket |-> <<Ch.lbracket>>, rbracket |-> <<Ch.rbracket>>,
        lbrace |-> <<Ch.lbrace>>, rbrace |-> <<Ch.rbrace>>,
        comma |-> <<Ch.comma>>, colon |-> <<Ch.colon>>,
        space |-> <<Ch.space>>, x |-> <<Ch.x>>,
        quote |-> <<Ch.quote>>, empty |-> <<>> ]

\* the texts of the repository's tests (src/tests/integration.rs), shortened to
\* the characters of Ch, and the two literal scenarios of the specification
Samples ==
    { <<lit_null>>, <<lit_true>>, <<lit_false>>,
      <<Lx.str_a>>,
      <<<<Ch.quote, Ch.a, Ch.space, Ch.backslash, Ch.quote, Ch.b, Ch.backslash,
          Ch.quote, Ch.quote>>>>,
      <<<<Ch.quote, Ch.u, Ch.space, Ch.backslash, Ch.u, Ch.d2, Ch.d6, Ch.d3, Ch.A,
          Ch.quote>>>>,
      <<<<Ch.d1, Ch.d2, Ch.d3>>>>,
      <<<<Ch.minus, Ch.d1, Ch.d2, Ch.dot, Ch.d7, Ch.d8>>>>,
      <<<<Ch.d1, Ch.dot, Ch.d2, Ch.d3, Ch.e, Ch.minus, Ch.d2>>>>,
      <<Lx.lbracket, Lx.rbracket>>,
      <<Lx.lbracket, Lx.one, Lx.comma, Lx.space, Lx.str_a, Lx.comma, Lx.space,
        Lx.true, Lx.rbracket>>,
      <<Lx.lbrace, Lx.rbrace>>,
      <<Lx.lbrace, Lx.str_a, Lx.colon, Lx.space, Lx.str_b, Lx.comma, Lx.space,
        Lx.str_b, Lx.colon, Lx.space, Lx.three, Lx.rbrace>>,
      <<<<Ch.quote, Ch.u, Ch.n>>>>,
      <<<<Ch.i, Ch.n>>>>,
      <<Lx.lbracket, Lx.one, Lx.comma>>,
      <<Lx.null, Lx.space, Lx.null>>,
      <<Lx.lbrace, Lx.str_a, Lx.colon, Lx.one, Lx.comma, Lx.str_a, Lx.colon,
        Lx.two, Lx.rbrace>> }

\* every text of at most MaxLexemes of these lexemes
CoreLexemes ==
    { Lx.null, Lx.str_a, Lx.one, Lx.lbracket, Lx.rbracket, Lx.comma, Lx.space, Lx.x }

CoreDocs == SeqsUpTo(CoreLexemes, MaxLexemes)

\* whitespace, then any one character, then a tail that may complete a value
AllChars == { Ch[k] : k \in DOMAIN Ch }
WsRuns == { <<>>, <<Ch.space>>, <<Ch.tab, Ch.lf, Ch.nbsp>> }
DispatchTails ==
    { <<>>, <<Ch.u, Ch.l, Ch.l>>, <<Ch.r, Ch.u, Ch.e>>, <<Ch.a, Ch.l, Ch.s, Ch.e>>,
      <<Ch.quote>>, <<Ch.rbracket>>, <<Ch.rbrace>>, <<Ch.d1>> }

DispatchDocs ==
    { <<w>> : w \in WsRuns }
        \cup { <<w, <<c>>, tl>> : w \in WsRuns, c \in AllChars, tl \in DispatchTails }

\* a value, well-formed or not, inside at most MaxDepth open arrays and objects
Openers == { <<Ch.lbracket>>, <<Ch.lbracket, Ch.d1, Ch.comma>>,
             <<Ch.lbrace, Ch.quote, Ch.a, Ch.quote, Ch.colon>> }
NestTails ==
    { <<>>, <<Ch.x>>, <<Ch.n, Ch.u, Ch.l>>, <<Ch.quote, Ch.a>>, <<Ch.minus>>,
      <<Ch.d1, Ch.space, Ch.d1>>, <<Ch.d1>>, <<Ch.quote, Ch.backslash, Ch.x>>,
      <<Ch.lbrace, Ch.d1>>, <<Ch.lbrace, Ch.quote, Ch.a, Ch.quote, Ch.d1>> }

NestDocs ==
    { os \o <<tl>> : os \in SeqsUpTo(Openers, MaxDepth), tl \in NestTails }

Docs == Samples \cup CoreDocs \cup DispatchDocs \cup NestDocs

\* values with their texts, to put in arrays and objects
Elements ==
    { [text |-> <<Ch.d1>>, value |-> Number([m |-> 1, e |-> 0])],
      [text |-> <<Ch.d2>>, value |-> Number([m |-> 2, e |-> 0])],
      [text |-> <<Ch.space, Ch.quote, Ch.a, Ch.quote, Ch.tab>>,
       value |-> String(<<Ch.a>>)],
      [text |-> lit_true, value |-> Boolean(TRUE)],
      [text |-> <<Ch.lbracket, Ch.d2, Ch.comma, Ch.d1, Ch.rbracket>>,
       value |-> Array(<<Number([m |-> 2, e |-> 0]), Number([m |-> 1, e |-> 0])>>)],
      [text |-> <<Ch.lbrace, Ch.quote, Ch.a, Ch.quote, Ch.colon, Ch.d1, Ch.comma,
                  Ch.quote, Ch.a, Ch.quote, Ch.colon, Ch.d2, Ch.rbrace>>,
       value |-> Object([k \in {<<Ch.a>>} |-> Number([m |-> 2, e |-> 0])])] }

ElementOf(text) == CHOOSE el \in Elements : el.text = text

\* the lexemes of `[` e1 `,` e2 .. `]`, and of `{` m1 `,` m2 .. `}`
Enclosed(open, texts, close) ==
    IF texts = <<>> THEN <<open, close>>
    ELSE [i \in 1..(2 * Len(texts) + 1) |->
            IF i = 1 THEN open
            ELSE IF i % 2 = 0 THEN texts[i \div 2]
            ELSE IF i = 2 * Len(texts) + 1 THEN close
            ELSE Lx.comma]

\* every array of at most MaxElements of the Elements, and `[` whitespace `]`
ElementDocs ==
    { Enclosed(Lx.lbracket, [i \in DOMAIN es |-> es[i].text], Lx.rbracket) :
        es \in SeqsUpTo(Elements, MaxElements) }
        \cup { <<Lx.lbracket, w, Lx.rbracket>> : w \in WsRuns }

\* members `"k" : v` with their keys and values
Members ==
    { mb \in { [text |-> <<Ch.quote, k, Ch.quote, Ch.colon>> \o el.text,
                key |-> <<k>>, value |-> el.value] :
                    k \in {Ch.a, Ch.b}, el \in Elements } :
        \/ mb.value = Number([m |-> 1, e |-> 0])
        \/ mb.value.t = "String"
        \/ mb.value.t = "Object" /\ mb.key = <<Ch.a>> }

MemberOf(text) == CHOOSE mb \in Members : mb.text = text

\* every object of at most MaxMembers of the Members
MemberDocs ==
    { Enclosed(Lx.lbrace, [i \in DOMAIN ms |-> ms[i].text], Lx.rbrace) :
        ms \in SeqsUpTo(Members, MaxMembers) }

\* `{` and then at most MaxLexemes of these lexemes
ObjectLexemes ==
    { Lx.str_a, Lx.colon, Lx.one, Lx.comma, Lx.rbrace, Lx.space, Lx.null }

ObjectDocs == { <<Lx.lbrace>> \o body : body \in SeqsUpTo(ObjectLexemes, MaxLexemes) }

\* `"` and then at most MaxStringLen of: a quote, a backslash, two plain
\* characters, and the eight escapes
Escapes == { <<Ch.backslash, c>> :
                c \in {Ch.quote, Ch.backslash, Ch.slash, Ch.b, Ch.f, Ch.n, Ch.r, Ch.t} }
StringLexemes ==
    { <<Ch.quote>>, <<Ch.backslash>>, <<Ch.eacute>>, <<Ch.n>> } \cup Escapes

StringDocs ==
    { <<Lx.quote>> \o body : body \in SeqsUpTo(StringLexemes, MaxStringLen) }

\* `"\u`, then at most four of these characters, then the end or a quote; and
\* a high surrogate followed by a low one
HexLexemes ==
    { <<Ch.d0>>, <<Ch.d7>>, <<Ch.d8>>, <<Ch.D>>, <<Ch.E>>, <<Ch.f>>, <<Ch.g>> }
EscapeU == <<Ch.quote, Ch.backslash, Ch.u>>
SurrogatePair ==
    <<EscapeU, <<Ch.D>>, <<Ch.d8>>, <<Ch.d3>>, <<Ch.D>>,
      <<Ch.backslash, Ch.u, Ch.D, Ch.E, Ch.d0, Ch.d0, Ch.quote>>>>

UnicodeDocs ==
    { <<EscapeU>> \o ds \o <<tl>> :
        ds \in SeqsUpTo(HexLexemes, 4), tl \in {Lx.empty, Lx.quote} }
        \cup {SurrogatePair}

\* a sign, a digit or `7.0`, and then at most MaxNumberLen of the characters
\* a number is made of
NumberLexemes ==
    { <<Ch.minus>>, <<Ch.d0>>, <<Ch.d7>>, <<Ch.dot>>, <<Ch.e>>, <<Ch.E>>, <<Ch.plus>> }
NumberDocs ==
    { <<first>> \o body :
        first \in { <<Ch.minus>>, <<Ch.d0>>, <<Ch.d7>>, <<Ch.d7, Ch.dot, Ch.d0>> },
        body \in SeqsUpTo(NumberLexemes, MaxNumberLen) }

\* at most MaxLiterals of the literals, their prefixes and case variants
LiteralLexemes ==
    { lit_null, <<Ch.n, Ch.u, Ch.l>>, <<Ch.N, Ch.u, Ch.l, Ch.l>>,
      lit_true, <<Ch.t, Ch.r, Ch.u>>, <<Ch.T, Ch.r, Ch.u, Ch.e>>,
      lit_false, <<Ch.f, Ch.a, Ch.l, Ch.s>>, <<Ch.l>>, <<Ch.e>>, <<Ch.space>> }
LiteralDocs == SeqsUpTo(LiteralLexemes, MaxLiterals)

\* runs of space, tab and newline
Pads == { <<>>, <<Ch.space>>, <<Ch.tab>>, <<Ch.lf>>, <<Ch.space, Ch.tab, Ch.lf>> }

\* the lexemes ts with the whitespace ws[g] after the g-th of them
Gapped(ts, ws) ==
    [i \in 1..(2 * Len(ts) + 1) |-> IF i % 2 = 1 THEN ws[i \div 2] ELSE ts[i \div 2]]

\* the lexemes of a gapped document, its whitespace left out
Base(d) == [k \in 1..(Len(d) \div 2) |-> d[2 * k]]

\* the sample texts and short texts, whitespace before and after them; and the
\* sample texts with whitespace at one or at all of the gaps between their lexemes
PadLexemes == { Lx.null, Lx.one, Lx.lbracket, Lx.rbracket, Lx.comma, Lx.quote }
PaddedDocs ==
    { Gapped(ts, [g \in 0..Len(ts) |->
                    IF g = 0 /\ g = Len(ts) THEN p \o q
                    ELSE IF g = 0 THEN p
                    ELSE IF g = Len(ts) THEN q ELSE <<>>]) :
        ts \in Samples \cup SeqsUpTo(PadLexemes, MaxPadded), p \in Pads, q \in Pads }
GappedDocs ==
    UNION { { Gapped(ts, [g \in 0..Len(ts) |-> IF g = k \/ k = -1 THEN w ELSE <<>>]) :
                k \in -1..Len(ts), w \in Pads } :
            ts \in { SelectSeq(x, LAMBDA lx : lx # Lx.space) : x \in Samples } }

\* the sample texts a second parser runs on
PeerDocs ==
    { <<Lx.lbracket, Lx.one, Lx.comma>>,
      <<Lx.lbracket, Lx.one, Lx.comma, Lx.space, Lx.str_a, Lx.comma, Lx.space,
        Lx.true, Lx.rbracket>>,
      <<Lx.lbrace, Lx.str_a, Lx.colon, Lx.one, Lx.comma, Lx.str_a, Lx.colon,
        Lx.two, Lx.rbrace>> }

\* `[` and then elements, commas, `]` and spaces; `{` and then members,
\* commas, `}` and spaces
ArrayLoopLexemes == { Lx.str_a, Lx.null, Lx.comma, Lx.rbracket, Lx.space }
MemberA1 == <<Ch.quote, Ch.a, Ch.quote, Ch.colon, Ch.d1>>
ObjectLoopLexemes == { MemberA1, Lx.comma, Lx.rbrace, Lx.space }
LoopDocs ==
    { <<Lx.lbracket>> \o body : body \in SeqsUpTo(ArrayLoopLexemes, MaxLoop) }
        \cup { <<Lx.lbrace>> \o body : body \in SeqsUpTo(ObjectLoopLexemes, MaxLoop) }

\* at most MaxDepth openers, a core, and closing brackets: those that match
\* the openers, all of them but the last, none, or as many `]`
Cores ==
    { <<Ch.d1>>, <<Ch.lbracket, Ch.rbracket>>,
      <<Ch.quote, Ch.rbracket, Ch.lbrace, Ch.backslash, Ch.quote, Ch.lbracket, Ch.quote>>,
      <<Ch.x>>, <<Ch.quote, Ch.lbracket>>, <<>> }
Closer(o) == IF Head(o) = Ch.lbracket THEN Lx.rbracket ELSE Lx.rbrace
Closers(os) == [i \in 1..Len(os) |-> Closer(os[Len(os) + 1 - i])]
DeepDocs ==
    UNION { { os \o <<core>> \o cs :
                core \in Cores,
                cs \in { Closers(os), Prefix(Closers(os), Len(os) - 1), <<>>,
                         [i \in 1..Len(os) |-> Lx.rbracket] } } :
            os \in SeqsUpTo(Openers, MaxDepth) }

\* whitespace, the opening of a container up to one of the places where a
\* routine looks at the next character, whitespace, and then a lexeme, right
\* or wrong for the place, and what follows it
LookaheadGaps == { <<>>, <<Ch.space, Ch.nbsp>> }
LookaheadContexts ==
    { <<>>,
      <<Ch.lbracket>>, <<Ch.lbracket, Ch.d1>>, <<Ch.lbracket, Ch.d1, Ch.comma>>,
      <<Ch.lbrace>>, <<Ch.lbrace, Ch.quote, Ch.a, Ch.quote>>,
      <<Ch.lbrace, Ch.quote, Ch.a, Ch.quote, Ch.colon>>,
      <<Ch.lbrace, Ch.quote, Ch.a, Ch.quote, Ch.colon, Ch.d1>>,
      <<Ch.lbrace, Ch.quote, Ch.a, Ch.quote, Ch.colon, Ch.d1, Ch.comma>> }
LookaheadLexemes ==
    { <<>>, <<Ch.x>>, <<Ch.d1>>, <<Ch.quote, Ch.a, Ch.quote>>,
      <<Ch.n, Ch.u, Ch.l>>, <<Ch.t, Ch.r, Ch.u>>, <<Ch.f, Ch.a, Ch.l, Ch.s>>,
      <<Ch.rbracket>>, <<Ch.rbrace>>, <<Ch.colon>>, <<Ch.comma>>,
      <<Ch.quote, Ch.backslash>>, <<Ch.quote, Ch.backslash, Ch.x>>,
      <<Ch.quote, Ch.backslash, Ch.u>>,
      <<Ch.quote, Ch.backslash, Ch.u, Ch.d0, Ch.g>>,
      <<Ch.quote, Ch.backslash, Ch.u, Ch.D, Ch.d8, Ch.d0, Ch.d0>> }
LookaheadTails == { <<>>, <<Ch.rbracket>> }
LookaheadDocs ==
    { <<lead, ctx, gap, lx, tl>> :
        lead \in LookaheadGaps, ctx \in LookaheadContexts, gap \in LookaheadGaps,
        lx \in LookaheadLexemes, tl \in LookaheadTails }

InitWith(docs) ==
    /\ doc \in docs
    /\ parser = new(Flatten(doc))
    /\ peer = new(<<>>)

Init == InitWith(Docs)

-----------------------------------------------------------------------------
(* Actions *)

CallParse ==
    /\ at_call_parse(parser)
    /\ Len(parser.results) < MaxCalls
    /\ parser' = call_parse(parser)
    /\ UNCHANGED <<doc, peer>>

SkipWhitespace ==
    at_skip_whitespace(parser) /\ parser' = skip_whitespace(parser) /\ UNCHANGED <<doc, peer>>

Parse == at_parse(parser) /\ parser' = parse(parser) /\ UNCHANGED <<doc, peer>>

ParseResult ==
    at_parse_result(parser) /\ parser' = parse_result(parser) /\ UNCHANGED <<doc, peer>>

ParseEnd == at_parse_end(parser) /\ parser' = parse_end(parser) /\ UNCHANGED <<doc, peer>>

ParseValue ==
    at_parse_value(parser) /\ parser' = parse_value(parser) /\ UNCHANGED <<doc, peer>>

ParseNull == at_parse_null(parser) /\ parser' = parse_null(parser) /\ UNCHANGED <<doc, peer>>

ParseBoolean ==
    at_parse_boolean(parser) /\ parser' = parse_boolean(parser) /\ UNCHANGED <<doc, peer>>

ParseString ==
    at_parse_string(parser) /\ parser' = parse_string(parser) /\ UNCHANGED <<doc, peer>>

ParseStringChar ==
    at_parse_string_char(parser) /\ parser' = parse_string_char(parser)
                                 /\ UNCHANGED <<doc, peer>>

ParseStringHex ==
    at_parse_string_hex(parser) /\ parser' = parse_string_hex(parser)
                                /\ UNCHANGED <<doc, peer>>

ParseStringCode ==
    at_parse_string_code(parser) /\ parser' = parse_string_code(parser)
                                 /\ UNCHANGED <<doc, peer>>

ParseNumber ==
    at_parse_number(parser) /\ parser' = parse_number(parser) /\ UNCHANGED <<doc, peer>>

ParseNumberDigit ==
    at_parse_number_digit(parser) /\ parser' = parse_number_digit(parser)
                                  /\ UNCHANGED <<doc, peer>>

ParseNumberInt ==
    at_parse_number_int(parser) /\ parser' = parse_number_int(parser)
                                /\ UNCHANGED <<doc, peer>>

ParseNumberFrac ==
    at_parse_number_frac(parser) /\ parser' = parse_number_frac(parser)
                                 /\ UNCHANGED <<doc, peer>>

ParseNumberExp ==
    at_parse_number_exp(parser) /\ parser' = parse_number_exp(parser)
                                /\ UNCHANGED <<doc, peer>>

ParseArray ==
    at_parse_array(parser) /\ parser' = parse_array(parser) /\ UNCHANGED <<doc, peer>>

ParseArrayFirst ==
    at_parse_array_first(parser) /\ parser' = parse_array_first(parser)
                                 /\ UNCHANGED <<doc, peer>>

ParseArrayPush ==
    at_parse_array_push(parser) /\ parser' = parse_array_push(parser)
                                /\ UNCHANGED <<doc, peer>>

ParseArraySep ==
    at_parse_array_sep(parser) /\ parser' = parse_array_sep(parser)
                               /\ UNCHANGED <<doc, peer>>

ParseArrayLoop ==
    at_parse_array_loop(parser) /\ parser' = parse_array_loop(parser)
                                /\ UNCHANGED <<doc, peer>>

ParseObject ==
    at_parse_object(parser) /\ parser' = parse_object(parser) /\ UNCHANGED <<doc, peer>>

ParseObjectFirst ==
    at_parse_object_first(parser) /\ parser' = parse_object_first(parser)
                                  /\ UNCHANGED <<doc, peer>>

ParseObjectKey ==
    at_parse_object_key(parser) /\ parser' = parse_object_key(parser)
                                /\ UNCHANGED <<doc, peer>>

ParseObjectColon ==
    at_parse_object_colon(parser) /\ parser' = parse_object_colon(parser)
                                  /\ UNCHANGED <<doc, peer>>

ParseObjectInsert ==
    at_parse_object_insert(parser) /\ parser' = parse_object_insert(parser)
                                   /\ UNCHANGED <<doc, peer>>

ParseObjectSep ==
    at_parse_object_sep(parser) /\ parser' = parse_object_sep(parser)
                                /\ UNCHANGED <<doc, peer>>

ParseObjectLoop ==
    at_parse_object_loop(parser) /\ parser' = parse_object_loop(parser)
                                 /\ UNCHANGED <<doc, peer>>

Next ==
    \/ CallParse
    \/ SkipWhitespace
    \/ Parse
    \/ ParseResult
    \/ ParseEnd
    \/ ParseValue
    \/ ParseNull
    \/ ParseBoolean
    \/ ParseString
    \/ ParseStringChar
    \/ ParseStringHex
    \/ ParseStringCode
    \/ ParseNumber
    \/ ParseNumberDigit
    \/ ParseNumberInt
    \/ ParseNumberFrac
    \/ ParseNumberExp
    \/ ParseArray
    \/ ParseArrayFirst
    \/ ParseArrayPush
    \/ ParseArraySep
    \/ ParseArrayLoop
    \/ ParseObject
    \/ ParseObjectFirst
    \/ ParseObjectKey
    \/ ParseObjectColon
    \/ ParseObjectInsert
    \/ ParseObjectSep
    \/ ParseObjectLoop

Spec == Init /\ [][Next]_vars

\* the step the running call of s takes
Step(s) ==
    CASE at_skip_whitespace(s) -> skip_whitespace(s)
      [] at_parse(s) -> parse(s)
      [] at_parse_result(s) -> parse_result(s)
      [] at_parse_end(s) -> parse_end(s)
      [] at_parse_value(s) -> parse_value(s)
      [] at_parse_null(s) -> parse_null(s)
      [] at_parse_boolean(s) -> parse_boolean(s)
      [] at_parse_string(s) -> parse_string(s)
      [] at_parse_string_char(s) -> parse_string_char(s)
      [] at_parse_string_hex(s) -> parse_string_hex(s)
      [] at_parse_string_code(s) -> parse_string_code(s)
      [] at_parse_number(s) -> parse_number(s)
      [] at_parse_number_digit(s) -> parse_number_digit(s)
      [] at_parse_number_int(s) -> parse_number_int(s)
      [] at_parse_number_frac(s) -> parse_number_frac(s)
      [] at_parse_number_exp(s) -> parse_number_exp(s)
      [] at_parse_array(s) -> parse_array(s)
      [] at_parse_array_first(s) -> parse_array_first(s)
      [] at_parse_array_push(s) -> parse_array_push(s)
      [] at_parse_array_sep(s) -> parse_array_sep(s)
      [] at_parse_array_loop(s) -> parse_array_loop(s)
      [] at_parse_object(s) -> parse_object(s)
      [] at_parse_object_first(s) -> parse_object_first(s)
      [] at_parse_object_key(s) -> parse_object_key(s)
      [] at_parse_object_colon(s) -> parse_object_colon(s)
      [] at_parse_object_insert(s) -> parse_object_insert(s)
      [] at_parse_object_sep(s) -> parse_object_sep(s)
      [] at_parse_object_loop(s) -> parse_object_loop(s)
      [] OTHER -> s

\* the running call of s runs until it returns
RECURSIVE RunCall(_)
RunCall(s) == IF s.stack = <<>> THEN s ELSE IF s.aborted THEN s ELSE RunCall(Step(s))

\* let mut parser = JsonParser::new(input); parser.parse()
parse_json_twice(input) ==
    LET f == RunCall(call_parse(RunCall(call_parse(new(input)))))
    IN  IF f.aborted THEN [ok |-> FALSE, e |-> "panic"] ELSE f.results[Len(f.results)]

parse_json(input) ==
    LET f == RunCall(call_parse(new(input)))
    IN  IF f.aborted THEN [ok |-> FALSE, e |-> "panic"] ELSE f.results[1]

\* the routines of the literals called on their own
CallParseNull ==
    /\ at_call_parse(parser)
    /\ Len(parser.results) < MaxCalls
    /\ parser' = call_parse_null(parser)
    /\ UNCHANGED <<doc, peer>>

CallParseBoolean ==
    /\ at_call_parse(parser)
    /\ Len(parser.results) < MaxCalls
    /\ parser' = call_parse_boolean(parser)
    /\ UNCHANGED <<doc, peer>>

NextUnit == Next \/ CallParseNull \/ CallParseBoolean
InitUnit == InitWith(Samples \cup LiteralDocs)
SpecUnit == InitUnit /\ [][NextUnit]_vars

\* a step of the call running on one parser, with another parser around: the
\* routines take &mut self and nothing else
interleave_step_shared_cursor(self, other) ==
    <<Step(self), [other EXCEPT !.position = Step(self).position,
                                !.remaining = SliceFrom(other.input, Step(self).position)]>>

interleave_step(self, other) == <<Step(self), other>>

CallPeer ==
    /\ at_call_parse(peer)
    /\ Len(peer.results) < MaxPeerCalls
    /\ peer' = call_parse(peer)
    /\ UNCHANGED <<doc, parser>>

PeerStep ==
    /\ peer.stack # <<>>
    /\ ~peer.aborted
    /\ peer' = interleave_step(peer, parser)[1]
    /\ parser' = interleave_step(peer, parser)[2]
    /\ UNCHANGED doc

NextPair == Next \/ CallPeer \/ PeerStep
InitPair ==
    /\ doc \in Samples
    /\ parser = new(Flatten(doc))
    /\ peer \in {new(Flatten(doc))} \cup {new(Flatten(d)) : d \in PeerDocs}
SpecPair == InitPair /\ [][NextPair]_vars

\* the reference serializer of the round trip: a test fixture that writes a
\* value as JSON text, `"` and `\` of a string escaped, a number in the syntax
\* of parse_number
RECURSIVE DigitsOf(_)
DigitsOf(k) == IF k < 10 THEN <<48 + k>> ELSE DigitsOf(k \div 10) \o <<48 + (k % 10)>>

SignedDigits(k) == IF k < 0 THEN <<Ch.minus>> \o DigitsOf(0 - k) ELSE DigitsOf(k)

RECURSIVE EscapeText(_)
EscapeText(s) ==
    IF s = <<>> THEN <<>>
    ELSE (IF Head(s) \in {Ch.quote, Ch.backslash}
          THEN <<Ch.backslash, Head(s)>> ELSE <<Head(s)>>) \o EscapeText(Tail(s))

RECURSIVE Serialize(_), SerializeElements(_), SerializeMembers(_, _)
Serialize(v) ==
    CASE v.t = "Null" -> lit_null
      [] v.t = "Boolean" -> IF v.b THEN lit_true ELSE lit_false
      [] v.t = "Number" ->
            SignedDigits(v.n.m)
                \o (IF v.n.e = 0 THEN <<>> ELSE <<Ch.e>> \o SignedDigits(v.n.e))
      [] v.t = "String" -> <<Ch.quote>> \o EscapeText(v.s) \o <<Ch.quote>>
      [] v.t = "Array" -> <<Ch.lbracket>> \o SerializeElements(v.a) \o <<Ch.rbracket>>
      [] v.t = "Object" ->
            <<Ch.lbrace>> \o SerializeMembers(v.m, DOMAIN v.m) \o <<Ch.rbrace>>
SerializeElements(a) ==
    IF a = <<>> THEN <<>>
    ELSE Serialize(Head(a))
            \o (IF Len(a) = 1 THEN <<>> ELSE <<Ch.comma>> \o SerializeElements(Tail(a)))
SerializeMembers(m, keys) ==
    IF keys = {} THEN <<>>
    ELSE LET k == CHOOSE x \in keys : TRUE
         IN  <<Ch.quote>> \o EscapeText(k) \o <<Ch.quote, Ch.colon>> \o Serialize(m[k])
                \o (IF keys = {k} THEN <<>>
                    ELSE <<Ch.comma>> \o SerializeMembers(m, keys \ {k}))

InitRound == InitWith(Samples \cup ElementDocs \cup StringDocs)
SpecRound == InitRound /\ [][Next]_vars

InitDeep == InitWith(Samples \cup DeepDocs)
SpecDeep == InitDeep /\ [][Next]_vars

InitLoops == InitWith(Samples \cup LoopDocs)
SpecLoops == InitLoops /\ [][Next]_vars

InitLookahead == InitWith(Samples \cup LookaheadDocs)
SpecLookahead == InitLookahead /\ [][Next]_vars

InitPadded == InitWith(PaddedDocs \cup GappedDocs)
SpecPadded == InitPadded /\ [][Next]_vars

\* the steps of a running call: a call of parse(), once made, keeps running
Run == Next /\ parser.stack # <<>>

\* fewer texts, with multi-byte characters among them
LiveLexemes ==
    { Lx.str_a, Lx.one, Lx.lbracket, Lx.rbracket, Lx.lbrace, Lx.rbrace, Lx.comma,
      Lx.colon, <<Ch.nbsp>> }

LiveDocs ==
    Samples
        \cup { <<<<Ch.quote, Ch.grin>>>>, <<<<Ch.quote, Ch.eacute, Ch.smiley, Ch.quote>>>>,
               <<<<Ch.quote, Ch.backslash, Ch.u, Ch.eacute>>>>, <<<<Ch.grin>>>> }
        \cup SeqsUpTo(LiveLexemes, MaxLiveLexemes)

InitLive == InitWith(LiveDocs)

SpecLive == InitLive /\ [][Next]_vars /\ WF_vars(Run)

\* the same texts, no fairness
SpecCursor == InitLive /\ [][Next]_vars

InitArrays == InitWith(Samples \cup ElementDocs)
SpecArrays == InitArrays /\ [][Next]_vars

InitMembers == InitWith(Samples \cup MemberDocs)
SpecMembers == InitMembers /\ [][Next]_vars

InitObjects == InitWith(Samples \cup ObjectDocs)
SpecObjects == InitObjects /\ [][Next]_vars

InitStrings == InitWith(Samples \cup StringDocs)
SpecStrings == InitStrings /\ [][Next]_vars

InitUnicode == InitWith(Samples \cup UnicodeDocs)
SpecUnicode == InitUnicode /\ [][Next]_vars

InitNumbers == InitWith(Samples \cup NumberDocs)
SpecNumbers == InitNumbers /\ [][Next]_vars

-----------------------------------------------------------------------------
(* The error conditions of the specification, by the messages of the source *)

Kind(message) ==
    CASE message = "Unexpected character" -> "UnexpectedCharacter"
      [] message = "Unexpected end of input" -> "UnexpectedEndOfInput"
      [] message \in {"Invalid null value", "Invalid boolean value"} -> "InvalidLiteral"
      [] message \in {"Unterminated string", "Unterminated string after escape"} ->
            "UnterminatedString"
      [] message = "Invalid escape sequence" -> "InvalidEscapeSequence"
      [] message \in {"Incomplete unicode escape sequence",
                      "Invalid unicode escape sequence"} -> "InvalidUnicodeEscape"
      [] message = "Invalid unicode code point" -> "InvalidCodePoint"
      [] message \in {"Number must contain at least one digit",
                      "Decimal point must be followed by at least one digit",
                      "Exponent must be followed by at least one digit"} ->
            "InvalidNumber"
      [] message = "Expected comma or closing bracket" -> "ExpectedCommaOrBracket"
      [] message = "Unterminated array" -> "UnterminatedArray"
      [] message = "Object keys must be strings" -> "ObjectKeyMustBeString"
      [] message = "Expected colon after key in object" -> "ExpectedColon"
      [] message = "Expected comma or closing brace" -> "ExpectedCommaOrBrace"
      [] message = "Unterminated object" -> "UnterminatedObject"
      [] message = "Extra characters after JSON value" -> "UnexpectedTrailingContent"
      [] OTHER -> "none"

\* r is a failure in the condition kind
Fails(r, kind) == ~r.ok /\ Kind(r.e) = kind

\* the first call of parse() on the parser has returned
Returned == Len(parser.results) >= 1
FirstResult == parser.results[1]

\* this step returns r from the running routine: to its caller, or from parse()
Returns(r) ==
    /\ parser'.stack = Callers(parser)
    /\ IF Len(parser.stack) = 1
       THEN parser'.results = Append(parser.results, r)
       ELSE parser'.ret = r

\* this step leaves the cursor where it is
CursorStays ==
    parser'.position = parser.position /\ parser'.remaining = parser.remaining

\* this step goes on in the running routine
Continues == Len(parser'.stack) = Len(parser.stack)

-----------------------------------------------------------------------------
(* C1: parse() accepts only a whole text.  When the first parse() on a     *)
(* parser has returned Ok the cursor is at the end of the input, and a     *)
(* parse() that has its value and, whitespace skipped, finds a character   *)
(* left returns UnexpectedTrailingContent.                                 *)

C1_OkAtEnd ==
    (Returned /\ FirstResult.ok) => parser.position = ByteLen(parser.input)

C1_TrailingRejected ==
    (at_parse_end(parser) /\ parser.remaining # <<>>)
        => \E r \in {Err("Extra characters after JSON value")} :
              Returns(r) /\ Fails(r, "UnexpectedTrailingContent")

C1_WholeInput == []C1_OkAtEnd /\ [][C1_TrailingRejected]_vars

\* `null null` has been rejected for its second null
C1_Witness ==
    /\ doc = <<Lx.null, Lx.space, Lx.null>>
    /\ Returned
    /\ Fails(FirstResult, "UnexpectedTrailingContent")

-----------------------------------------------------------------------------
(* C2: fail fast.  A routine that is handed an error by the routine it     *)
(* called returns that same error at once: it consumes nothing more, and   *)
(* so the first error of a parse is what parse() returns.                  *)

ErrorInFlight == parser.stack # <<>> /\ parser.ret # NoRet /\ ~parser.ret.ok

C2_FailFast ==
    [][ErrorInFlight => (CursorStays /\ Returns(parser.ret))]_vars

\* an error has reached an array that is itself inside an object, or the reverse
C2_Witness ==
    /\ ErrorInFlight
    /\ \E i, j \in 1..Len(parser.stack) :
          parser.stack[i].fn = "parse_array" /\ parser.stack[j].fn = "parse_object"

-----------------------------------------------------------------------------
(* C3: every call of parse() ends, with Ok(value) or a ParseError, and     *)
(* never with a panic on a slice of the input: each iteration of each loop *)
(* moves the cursor forward.                                               *)

\* this step is an iteration of a loop that leaves the flow in the loop
Iterates ==
    \/ at_skip_whitespace(parser)
    \/ at_parse_number_digit(parser)
    \/ at_parse_string_char(parser) /\ Continues
    \/ at_parse_string_hex(parser) /\ Continues
    \/ at_parse_array_sep(parser) /\ Continues
    \/ at_parse_object_sep(parser) /\ Continues

IsResult(r) ==
    IF r.ok THEN r.v.t \in {"Null", "Boolean", "Number", "String", "Array", "Object"}
    ELSE Kind(r.e) # "none"

C3_NoPanic ==
    /\ ~parser.aborted
    /\ \A i \in 1..Len(parser.results) : IsResult(parser.results[i])

C3_Terminates ==
    /\ []C3_NoPanic
    /\ [][Iterates => parser'.position > parser.position]_vars
    /\ (parser.stack # <<>>) ~> (parser.stack = <<>>)

\* a parse of a text with characters of several bytes has ended
C3_Witness ==
    /\ Returned
    /\ parser.stack = <<>>
    /\ \E i \in 1..Len(parser.input) : len_utf8(parser.input[i]) > 1

-----------------------------------------------------------------------------
(* C4: parse_value looks at the first character after the whitespace,      *)
(* consumes nothing, and goes on in the routine of that character, or      *)
(* fails: UnexpectedCharacter for a character that starts no value,        *)
(* UnexpectedEndOfInput when there is none.                                *)

RoutineOf(c) ==
    IF c = Ch.n THEN "parse_null"
    ELSE IF c = Ch.t \/ c = Ch.f THEN "parse_boolean"
    ELSE IF c = Ch.quote THEN "parse_string"
    ELSE IF c = Ch.lbracket THEN "parse_array"
    ELSE IF c = Ch.lbrace THEN "parse_object"
    ELSE IF c = Ch.minus \/ (c >= Ch.d0 /\ c <= Ch.d9) THEN "parse_number"
    ELSE "none"

C4_Routes ==
    at_parse_value(parser) =>
        /\ CursorStays
        /\ IF parser.remaining = <<>>
           THEN \E r \in {parser'.ret} : Returns(r) /\ Fails(r, "UnexpectedEndOfInput")
           ELSE IF RoutineOf(Head(parser.remaining)) = "none"
           THEN \E r \in {parser'.ret} : Returns(r) /\ Fails(r, "UnexpectedCharacter")
           ELSE /\ Continues
                /\ Top(parser').fn = RoutineOf(Head(parser.remaining))
                /\ Callers(parser') = Callers(parser)

\* an empty or all-whitespace text is an UnexpectedEndOfInput
C4_EmptyInput ==
    (Returned /\ \A i \in 1..Len(parser.input) : is_whitespace(parser.input[i]))
        => Fails(FirstResult, "UnexpectedEndOfInput")

C4_Dispatch == []C4_EmptyInput /\ [][C4_Routes]_vars

\* the `i` of `in` has been refused
C4_Witness ==
    /\ parser.input = <<Ch.i, Ch.n>>
    /\ Returned
    /\ Fails(FirstResult, "UnexpectedCharacter")
    /\ parser.position = 0

-----------------------------------------------------------------------------
(* C5, as claimed: an array whose input ends before its `]` fails with     *)
(* UnterminatedArray.                                                      *)

C5_Original ==
    [][(/\ parser.stack # <<>>
        /\ Top(parser).fn = "parse_array"
        /\ parser.remaining = <<>>
        /\ parser'.stack = Callers(parser)
        /\ parser'.ret # NoRet
        /\ ~parser'.ret.ok)
            => Fails(parser'.ret, "UnterminatedArray")]_vars

(* C5, amended: an array whose input ends right after one of its elements  *)
(* fails with UnterminatedArray; one whose input ends where an element is  *)
(* due, right after `[` or after a `,` as in `[1,`, fails with             *)
(* UnexpectedEndOfInput; a character other than `,` and `]` after an       *)
(* element fails with ExpectedCommaOrBracket.                              *)

C5_AfterElement ==
    at_parse_array_sep(parser) =>
        IF parser.remaining = <<>>
        THEN \E r \in {parser'.ret} : Returns(r) /\ Fails(r, "UnterminatedArray")
        ELSE IF Head(parser.remaining) \notin {Ch.comma, Ch.rbracket}
        THEN \E r \in {parser'.ret} : Returns(r) /\ Fails(r, "ExpectedCommaOrBracket")
        ELSE parser'.ret = NoRet \/ parser'.ret.ok

C5_ElementDue ==
    (/\ at_parse_value(parser)
     /\ parser.remaining = <<>>
     /\ parser.stack[Len(parser.stack) - 1].fn = "parse_array")
        => \E r \in {parser'.ret} : Returns(r) /\ Fails(r, "UnexpectedEndOfInput")

\* the last character of text that is not whitespace, -1 if there is none
LastNonWs(text) ==
    LET ks == { k \in 1..Len(text) : ~is_whitespace(text[k]) }
    IN  IF ks = {} THEN -1 ELSE text[CHOOSE k \in ks : \A j \in ks : j <= k]

\* a text without strings that ends after a `[` or a `,` and was read to its end
C5_EndsWhereElementDue ==
    (/\ Len(parser.results) = 1
     /\ parser.stack = <<>>
     /\ ~FirstResult.ok
     /\ parser.remaining = <<>>
     /\ \A i \in 1..Len(parser.input) : parser.input[i] # Ch.quote
     /\ LastNonWs(parser.input) \in {Ch.lbracket, Ch.comma})
        => Fails(FirstResult, "UnexpectedEndOfInput")

C5_ArrayEnd ==
    /\ []C5_EndsWhereElementDue
    /\ [][C5_AfterElement /\ C5_ElementDue]_vars

\* `[1,` has failed at its end, for the element that is due
C5_Witness ==
    /\ doc = <<Lx.lbracket, Lx.one, Lx.comma>>
    /\ Returned
    /\ Fails(FirstResult, "UnexpectedEndOfInput")
    /\ parser.remaining = <<>>

\* the document is open, texts separated by commas, close
IsEnclosed(d, open, texts, close) ==
    /\ Len(d) >= 2
    /\ d[1] = open
    /\ d[Len(d)] = close
    /\ Len(d) # 2 => Len(d) % 2 = 1
    /\ \A i \in 2..(Len(d) - 1) :
          IF i % 2 = 0 THEN d[i] \in texts ELSE d[i] = Lx.comma

\* the texts between the brackets and commas, left to right
Inner(d) == [k \in 1..((Len(d) - 1) \div 2) |-> d[2 * k]]

(***************************************************************************)
(* C6: a successfully parsed object has every distinct key once, the value *)
(* under a key is that of the last member with the key in input order, and *)
(* it has as many entries as there are distinct keys.                      *)
(***************************************************************************)
C6_LastWriteWins ==
    (Returned /\ IsEnclosed(doc, Lx.lbrace, {mb.text : mb \in Members}, Lx.rbrace)) =>
        LET ms == [k \in DOMAIN Inner(doc) |-> MemberOf(Inner(doc)[k])]
            keys == {ms[k].key : k \in DOMAIN ms}
            last(key) == CHOOSE k \in DOMAIN ms :
                            /\ ms[k].key = key
                            /\ \A j \in DOMAIN ms : ms[j].key = key => j <= k
        IN  /\ FirstResult.ok
            /\ FirstResult.v.t = "Object"
            /\ DOMAIN FirstResult.v.m = keys
            /\ \A key \in keys : FirstResult.v.m[key] = ms[last(key)].value
            /\ Cardinality(DOMAIN FirstResult.v.m) = Cardinality(keys)

\* `{"a":1,"b":2,"a":{"a":1,"a":2}}` has been parsed: two entries, the later
\* value under a, and inside it the later value again
C6_Witness ==
    /\ Returned
    /\ Len(doc) = 7
    /\ IsEnclosed(doc, Lx.lbrace, {mb.text : mb \in Members}, Lx.rbrace)
    /\ MemberOf(doc[2]).key = <<Ch.a>>
    /\ MemberOf(doc[2]).value = Number([m |-> 1, e |-> 0])
    /\ MemberOf(doc[4]).key = <<Ch.b>>
    /\ MemberOf(doc[6]).key = <<Ch.a>>
    /\ MemberOf(doc[6]).value.t = "Object"
    /\ FirstResult.ok
    /\ DOMAIN FirstResult.v.m = {<<Ch.a>>, <<Ch.b>>}
    /\ FirstResult.v.m[<<Ch.a>>].m[<<Ch.a>>] = Number([m |-> 2, e |-> 0])

(***************************************************************************)
(* C7: `[`, optional whitespace, `]` yields the empty sequence; otherwise  *)
(* a successfully parsed array has one element per comma-separated value   *)
(* of the text, in the order of the text.                                  *)
(***************************************************************************)
C7_OrderAndCount ==
    /\ (Returned /\ IsEnclosed(doc, Lx.lbracket, {el.text : el \in Elements},
                               Lx.rbracket)) =>
          FirstResult =
            Ok(Array([k \in DOMAIN Inner(doc) |-> ElementOf(Inner(doc)[k]).value]))
    /\ (Returned /\ Len(doc) = 3 /\ doc[1] = Lx.lbracket /\ doc[2] \in WsRuns
                 /\ doc[3] = Lx.rbracket) =>
          FirstResult = Ok(Array(<<>>))

\* `[1, "a" ,true]` (with the whitespace of the element's text) has been parsed
C7_Witness ==
    /\ Returned
    /\ doc = <<Lx.lbracket, <<Ch.d1>>, Lx.comma,
               <<Ch.space, Ch.quote, Ch.a, Ch.quote, Ch.tab>>, Lx.comma, lit_true,
               Lx.rbracket>>
    /\ FirstResult = Ok(Array(<<Number([m |-> 1, e |-> 0]), String(<<Ch.a>>),
                                Boolean(TRUE)>>))

(***************************************************************************)
(* C8: in the object loop a member is parsed as key, whitespace, `:`,      *)
(* value.  A key that parses to a value that is not a String fails with    *)
(* ObjectKeyMustBeString; anything but `:` after the key and whitespace,   *)
(* the end of input included, fails with ExpectedColon; after the member's *)
(* value a character other than `,` and `}` fails with                     *)
(* ExpectedCommaOrBrace and the end of input with UnterminatedObject.      *)
(***************************************************************************)

\* the order in which parse_object goes through a member
ObjectFlow ==
    { <<"open", "ws_open">>, <<"ws_open", "ret_key">>, <<"ret_key", "ws_key">>,
      <<"ws_key", "ret_member">>, <<"ret_member", "ws_member">>,
      <<"ws_member", "ws_comma">>, <<"ws_comma", "ret_key">> }

C8_Order ==
    \A i \in 1..Len(parser.stack) :
        (/\ parser.stack[i].fn = "parse_object"
         /\ i <= Len(parser'.stack)
         /\ parser'.stack[i].fn = "parse_object"
         /\ parser'.stack[i].pc # parser.stack[i].pc)
            => <<parser.stack[i].pc, parser'.stack[i].pc>> \in ObjectFlow

C8_Key ==
    (at_parse_object_key(parser) /\ parser.ret.ok) =>
        IF parser.ret.v.t = "String"
        THEN /\ Continues
             /\ Top(parser').pc = "ws_key"
             /\ Top(parser').key = parser.ret.v.s
        ELSE \E r \in {parser'.ret} : Returns(r) /\ Fails(r, "ObjectKeyMustBeString")

C8_Colon ==
    at_parse_object_colon(parser) =>
        IF peek(parser) = Ch.colon
        THEN /\ parser'.position = parser.position + 1
             /\ Len(parser'.stack) = Len(parser.stack) + 1
             /\ Top(parser').fn = "parse_value"
             /\ parser'.stack[Len(parser.stack)].pc = "ret_member"
        ELSE \E r \in {parser'.ret} : Returns(r) /\ Fails(r, "ExpectedColon")

C8_AfterValue ==
    at_parse_object_sep(parser) =>
        IF peek(parser) = -1
        THEN \E r \in {parser'.ret} : Returns(r) /\ Fails(r, "UnterminatedObject")
        ELSE IF peek(parser) \notin {Ch.comma, Ch.rbrace}
        THEN \E r \in {parser'.ret} : Returns(r) /\ Fails(r, "ExpectedCommaOrBrace")
        ELSE parser'.ret = NoRet \/ parser'.ret.ok

\* the lexemes of d that are not whitespace
NoSpace(d) == SelectSeq(d, LAMBDA x : x # Lx.space)

\* `{` and lexemes of ObjectLexemes: what the first member makes of the text
C8_FirstMember ==
    (/\ Returned
     /\ doc # <<>>
     /\ doc[1] = Lx.lbrace
     /\ \A i \in 2..Len(doc) : doc[i] \in ObjectLexemes) =>
        LET d == NoSpace(doc)
            n == Len(d)
        IN  /\ (n >= 2 /\ d[2] \in {Lx.one, Lx.null})
                  => Fails(FirstResult, "ObjectKeyMustBeString")
            /\ (n >= 2 /\ d[2] = Lx.str_a /\ (n >= 3 => d[3] # Lx.colon))
                  => Fails(FirstResult, "ExpectedColon")
            /\ (n = 4 /\ d[2] = Lx.str_a /\ d[3] = Lx.colon
                      /\ d[4] \in {Lx.one, Lx.null, Lx.str_a})
                  => Fails(FirstResult, "UnterminatedObject")
            /\ (n >= 5 /\ d[2] = Lx.str_a /\ d[3] = Lx.colon
                       /\ d[4] \in {Lx.one, Lx.null, Lx.str_a}
                       /\ d[5] \in {Lx.str_a, Lx.colon, Lx.null})
                  => Fails(FirstResult, "ExpectedCommaOrBrace")

C8_MemberProtocol ==
    /\ []C8_FirstMember
    /\ [][C8_Order /\ C8_Key /\ C8_Colon /\ C8_AfterValue]_vars

\* `{"a":1:` has failed at the second colon
C8_Witness ==
    /\ Returned
    /\ doc = <<Lx.lbrace, Lx.str_a, Lx.colon, Lx.one, Lx.colon>>
    /\ Fails(FirstResult, "ExpectedCommaOrBrace")

(***************************************************************************)
(* C9: after the opening quote a character other than `"` and `\` is       *)
(* appended as it is, one character of the string per character of the     *)
(* text; `\` and one of `"` `\` `/` b f n r t appends the quote, the       *)
(* backslash, the slash, U+0008, U+000C, LF, CR, TAB; `\` and another      *)
(* character (u apart) fails with InvalidEscapeSequence; the first         *)
(* unescaped quote ends the string and is consumed; the end of input       *)
(* before it fails with UnterminatedString.                                *)
(***************************************************************************)

\* the character after the backslash, and the code point it stands for
EscapeTable ==
    { <<Ch.quote, 34>>, <<Ch.backslash, 92>>, <<Ch.slash, 47>>, <<Ch.b, 8>>,
      <<Ch.f, 12>>, <<Ch.n, 10>>, <<Ch.r, 13>>, <<Ch.t, 9>> }

\* what the text after an opening quote stands for: the string s and the rest
\* of the text after the closing quote, or the kind of the failure
RECURSIVE Unescape(_)
Unescape(text) ==
    IF text = <<>>
    THEN [kind |-> "UnterminatedString", s |-> <<>>, rest |-> <<>>]
    ELSE IF Head(text) = Ch.quote
    THEN [kind |-> "ok", s |-> <<>>, rest |-> Tail(text)]
    ELSE IF Head(text) = Ch.backslash
    THEN IF Len(text) = 1
         THEN [kind |-> "UnterminatedString", s |-> <<>>, rest |-> <<>>]
         ELSE IF \E p \in EscapeTable : p[1] = text[2]
         THEN LET p == CHOOSE q \in EscapeTable : q[1] = text[2]
                  u == Unescape(SubSeq(text, 3, Len(text)))
              IN  [u EXCEPT !.s = <<p[2]>> \o @]
         ELSE [kind |-> "InvalidEscapeSequence", s |-> <<>>, rest |-> <<>>]
    ELSE LET u == Unescape(Tail(text))
         IN  [u EXCEPT !.s = <<Head(text)>> \o @]

HexTable ==
    { <<Ch.d0, 0>>, <<Ch.d3, 3>>, <<Ch.d7, 7>>, <<Ch.d8, 8>>, <<Ch.D, 13>>,
      <<Ch.E, 14>>, <<Ch.f, 15>> }

HexVal(c) ==
    IF \E p \in HexTable : p[1] = c
    THEN (CHOOSE p \in HexTable : p[1] = c)[2]
    ELSE -1

DigitRun(text, i) ==
    LET ks == { k \in i..(Len(text) + 1) :
                  IF k > Len(text) THEN TRUE ELSE text[k] \notin 48..57 }
    IN  (CHOOSE k \in ks : \A j \in ks : k <= j) - i

\* text[i] is one of cs
IsAt(text, i, cs) == IF i > Len(text) THEN FALSE ELSE text[i] \in cs

\* the length of the number literal at the head of text, 0 if a digit run is empty
NumberLiteral(text) ==
    LET a == IF IsAt(text, 1, {45}) THEN 2 ELSE 1
        n1 == DigitRun(text, a)
        b == a + n1
        hasdot == IsAt(text, b, {46})
        n2 == DigitRun(text, b + 1)
        c == IF hasdot THEN b + 1 + n2 ELSE b
        hasexp == IsAt(text, c, {101, 69})
        d == IF ~hasexp THEN c ELSE IF IsAt(text, c + 1, {43, 45}) THEN c + 2 ELSE c + 1
        n3 == DigitRun(text, d)
    IN  IF n1 = 0 THEN 0
        ELSE IF hasdot /\ n2 = 0 THEN 0
        ELSE IF hasexp /\ n3 = 0 THEN 0
        ELSE IF hasexp THEN d + n3 - 1
        ELSE c - 1

C11_NumberGrammar ==
    (/\ Len(parser.results) = 1
     /\ parser.stack = <<>>
     /\ doc # <<>>
     /\ doc[1] \in { <<Ch.minus>>, <<Ch.d0>>, <<Ch.d7>>, <<Ch.d7, Ch.dot, Ch.d0>> }
     /\ \A i \in 2..Len(doc) : doc[i] \in NumberLexemes) =>
        LET k == NumberLiteral(parser.input)
        IN  IF k = 0 THEN Fails(FirstResult, "InvalidNumber")
            ELSE /\ parser.position = k
                 /\ IF k = Len(parser.input)
                    THEN FirstResult = Ok(Number(parse_f64(parser.input)))
                    ELSE Fails(FirstResult, "UnexpectedTrailingContent")

\* `007` has been parsed to 7, and so has `7.0e+0`
C11_Witness ==
    /\ Returned
    /\ parser.input \in { <<Ch.d0, Ch.d0, Ch.d7>>,
                          <<Ch.d7, Ch.dot, Ch.d0, Ch.e, Ch.plus, Ch.d0>> }
    /\ FirstResult = Ok(Number([m |-> 7, e |-> 0]))
    /\ parser.position = Len(parser.input)

(***************************************************************************)
(* C12: parse_null succeeds iff the remaining input starts with `null`,    *)
(* parse_boolean iff it starts with `true` or `false`; on success the      *)
(* cursor advances by the literal's length (4, 4, 5) and the value is      *)
(* Null, Boolean(true), Boolean(false); on a mismatch, a prefix such as    *)
(* `nul` and a case variant such as `True` included, the routine fails     *)
(* with InvalidLiteral.                                                    *)
(***************************************************************************)

\* this step returns the value v and moves the cursor k bytes on
Yields(v, k) ==
    /\ \E r \in {Ok(v)} : Returns(r)
    /\ parser'.position = parser.position + k
    /\ parser'.remaining = Suffix(parser.remaining, k)

C12_Null ==
    at_parse_null(parser) =>
        IF Len(parser.remaining) >= 4 /\ Prefix(parser.remaining, 4) = <<110, 117, 108, 108>>
        THEN Yields(Null, 4)
        ELSE /\ CursorStays
             /\ \E r \in {Err("Invalid null value")} : Returns(r) /\ Fails(r, "InvalidLiteral")

C12_Boolean ==
    at_parse_boolean(parser) =>
        IF Len(parser.remaining) >= 4 /\ Prefix(parser.remaining, 4) = <<116, 114, 117, 101>>
        THEN Yields(Boolean(TRUE), 4)
        ELSE IF Len(parser.remaining) >= 5
                  /\ Prefix(parser.remaining, 5) = <<102, 97, 108, 115, 101>>
        THEN Yields(Boolean(FALSE), 5)
        ELSE /\ CursorStays
             /\ \E r \in {Err("Invalid boolean value")} :
                    Returns(r) /\ Fails(r, "InvalidLiteral")

C12_Literals == [][C12_Null /\ C12_Boolean]_vars

\* parse_boolean, called on `True`, has failed with InvalidLiteral at offset 0
C12_Witness ==
    /\ Len(parser.results) = 1
    /\ parser.stack = <<>>
    /\ parser.input = <<Ch.T, Ch.r, Ch.u, Ch.e>>
    /\ Fails(FirstResult, "InvalidLiteral")
    /\ parser.position = 0

(***************************************************************************)
(* C13: if a text parses to Ok(v), the text with runs of space, tab and    *)
(* newline before and after it parses to Ok(v) too, and if the text fails, *)
(* so does the text with the runs; whitespace is skipped before and after  *)
(* the top-level value, after `[` and `{`, after each element and after    *)
(* each `,`.                                                               *)
(***************************************************************************)
C13_Whitespace ==
    (Len(parser.results) = 1 /\ parser.stack = <<>>) =>
        LET r == parse_json(Flatten(Base(doc)))
        IN  IF r.ok THEN FirstResult = r ELSE ~FirstResult.ok

\* `[1,"a",true]`, with space, tab and newline around every lexeme, has been
\* parsed to what the text without them parses to
C13_Witness ==
    /\ Len(parser.results) = 1
    /\ parser.stack = <<>>
    /\ Len(doc) = 15
    /\ \A i \in 1..8 : doc[2 * i - 1] = <<Ch.space, Ch.tab, Ch.lf>>
    /\ Base(doc)[1] = Lx.lbracket
    /\ FirstResult.ok
    /\ Len(FirstResult.v.a) = 3
    /\ FirstResult = parse_json(Flatten(Base(doc)))

(***************************************************************************)
(* C14: with the steps of two parsers, over the same text or over          *)
(* different texts, interleaved in any order, the result and the final     *)
(* cursor of each are those of its run alone; a step of one parser leaves  *)
(* the other parser as it is, and no step changes an input.                *)
(***************************************************************************)

\* the first parse() on a parser over text, run alone to its return
Alone(text) == RunCall(call_parse(new(text)))

\* the first parse() on s has returned and no other has been called
Finished(s) == Len(s.results) = 1 /\ s.stack = <<>>

SameAsAlone(s) ==
    Finished(s) =>
        LET f == Alone(s.input)
        IN  /\ s.results = f.results
            /\ s.position = f.position
            /\ s.remaining = f.remaining

C14_OwnState ==
    /\ parser' # parser => peer' = peer
    /\ peer' # peer => parser' = parser
    /\ parser'.input = parser.input
    /\ peer'.input = peer.input

C14_Independent ==
    /\ [](SameAsAlone(parser) /\ SameAsAlone(peer))
    /\ [][C14_OwnState]_vars

\* one parser has returned its value while the other, over another text, is in
\* the middle of its own
C14_Witness ==
    /\ Finished(parser)
    /\ FirstResult.ok
    /\ peer.stack # <<>>
    /\ peer.position > 0
    /\ peer.remaining # <<>>
    /\ peer.input # parser.input

(***************************************************************************)
(* C15: parse_json(input) returns, for every input, the outcome of the     *)
(* first parse() on a fresh JsonParser over the same input: the same       *)
(* value, or an error of the same condition.                               *)
(***************************************************************************)
C15_OneShot ==
    Finished(parser) =>
        LET r == parse_json(parser.input)
        IN  IF FirstResult.ok
            THEN r = FirstResult
            ELSE ~r.ok /\ Kind(r.e) = Kind(FirstResult.e)

\* the first parse() on a parser over `{"a": "b", "b": 3}` has returned the
\* object that parse_json returns for the text
C15_Witness ==
    /\ Finished(parser)
    /\ doc = <<Lx.empty, Lx.lbrace, Lx.empty, Lx.str_a, Lx.empty, Lx.colon, Lx.empty,
               Lx.space, Lx.empty, Lx.str_b, Lx.empty, Lx.comma, Lx.empty, Lx.space,
               Lx.empty, Lx.str_b, Lx.empty, Lx.colon, Lx.empty, Lx.space, Lx.empty,
               Lx.three, Lx.empty, Lx.rbrace, Lx.empty>>
    /\ FirstResult.ok
    /\ DOMAIN FirstResult.v.m = {<<Ch.a>>, <<Ch.b>>}
    /\ parse_json(parser.input) = FirstResult

(***************************************************************************)
(* C16: for every value v that a successful parse returns, the text the    *)
(* reference serializer writes for v parses to a value equal to v, an      *)
(* object being the mapping of its keys to their values.                   *)
(***************************************************************************)
C16_RoundTrip ==
    (Finished(parser) /\ FirstResult.ok) =>
        parse_json(Serialize(FirstResult.v)) = Ok(FirstResult.v)

\* `[1, "a" ,{"a":1,"a":2}]` has been parsed; its value is written as
\* `[1,"a",{"a":2}]`, another text, which parses to the same value
C16_Witness ==
    /\ Finished(parser)
    /\ FirstResult.ok
    /\ FirstResult.v.t = "Array"
    /\ Len(FirstResult.v.a) = 3
    /\ FirstResult.v.a[2] = String(<<Ch.a>>)
    /\ FirstResult.v.a[3].t = "Object"
    /\ Serialize(FirstResult.v) # parser.input
    /\ parse_json(Serialize(FirstResult.v)) = FirstResult

(***************************************************************************)
(* C17: a closing `]` or `}` is accepted only right after the opening      *)
(* bracket or right after a parsed element (whitespace apart); after a `,` *)
(* the loop always parses an element.  So a trailing comma, a leading      *)
(* comma and two commas in a row are failures, and two elements never      *)
(* follow each other without a `,`.                                        *)
(***************************************************************************)

\* a step in which parse_array or parse_object returns its container
ClosesContainer ==
    /\ parser.stack # <<>>
    /\ Top(parser).fn \in {"parse_array", "parse_object"}
    /\ parser'.stack = Callers(parser)
    /\ parser'.ret.ok

C17_Close ==
    ClosesContainer =>
        /\ Top(parser).pc \in {"ws_open", "ws_elem", "ws_member"}
        /\ peek(parser) = (IF Top(parser).fn = "parse_array" THEN 93 ELSE 125)
        /\ parser'.position = parser.position + 1

C17_AfterComma ==
    (at_parse_array_loop(parser) \/ at_parse_object_loop(parser)) =>
        /\ Len(parser'.stack) = Len(parser.stack) + 1
        /\ Top(parser').fn = "parse_value"
        /\ parser'.stack[Len(parser.stack)].pc \in {"ret_elem", "ret_key"}
        /\ CursorStays

\* of the texts of LoopDocs exactly those succeed that are, whitespace apart,
\* an opening bracket, elements with one comma between two of them, and the
\* closing bracket
C17_Accepted ==
    /\ (Finished(parser) /\ doc # <<>> /\ doc[1] = Lx.lbracket
            /\ \A i \in 2..Len(doc) : doc[i] \in ArrayLoopLexemes) =>
          (FirstResult.ok <=>
              IsEnclosed(NoSpace(doc), Lx.lbracket, {Lx.str_a, Lx.null}, Lx.rbracket))
    /\ (Finished(parser) /\ doc # <<>> /\ doc[1] = Lx.lbrace
            /\ \A i \in 2..Len(doc) : doc[i] \in ObjectLoopLexemes) =>
          (FirstResult.ok <=>
              IsEnclosed(NoSpace(doc), Lx.lbrace, {MemberA1}, Lx.rbrace))

C17_LoopStates ==
    /\ []C17_Accepted
    /\ [][C17_Close /\ C17_AfterComma]_vars

\* `["a",]` has failed at the `]` after the comma
C17_Witness ==
    /\ Finished(parser)
    /\ doc = <<Lx.lbracket, Lx.str_a, Lx.comma, Lx.rbracket>>
    /\ Fails(FirstResult, "UnexpectedCharacter")
    /\ parser.position = 5

(***************************************************************************)
(* C18: in every reachable state 0 <= position <= the byte length of the   *)
(* input, position is on a character boundary and remaining is the suffix  *)
(* of the input that starts at position.  next_char at the end of the      *)
(* input leaves the cursor as it is; otherwise it moves position on by the *)
(* byte width, 1 to 4, of the character at the cursor.  The literals move  *)
(* it by 4 or 5, over as many characters.                                  *)
(***************************************************************************)
C18_Cursor ==
    /\ ~parser.aborted
    /\ parser.position >= 0
    /\ parser.position <= ByteLen(parser.input)
    /\ \E k \in 0..Len(parser.input) :
          /\ ByteLen(Prefix(parser.input, k)) = parser.position
          /\ parser.remaining = SubSeq(parser.input, k + 1, Len(parser.input))

C18_NextChar ==
    LET s == next_char(parser)
    IN  IF parser.remaining = <<>> THEN s = parser
        ELSE LET c == Head(parser.remaining)
                 w == IF c < 128 THEN 1 ELSE IF c < 2048 THEN 2
                      ELSE IF c < 65536 THEN 3 ELSE 4
             IN  /\ s.position = parser.position + w
                 /\ s.remaining = Tail(parser.remaining)
                 /\ ~s.aborted

\* a step that moves the cursor moves it over one to five characters, by their
\* byte widths
C18_Advance ==
    parser'.position # parser.position =>
        \E k \in 1..5 :
            /\ k <= Len(parser.remaining)
            /\ parser'.remaining = SubSeq(parser.remaining, k + 1, Len(parser.remaining))
            /\ parser'.position = parser.position + ByteLen(SubSeq(parser.remaining, 1, k))

C18_CursorInvariant ==
    /\ [](C18_Cursor /\ C18_NextChar)
    /\ [][C18_Advance]_vars

\* the string loop has read the four bytes of U+1F600 and, at the end of the
\* input, has found no character: the cursor is where it was
C18_Witness ==
    /\ Finished(parser)
    /\ parser.input = <<Ch.quote, Ch.grin>>
    /\ parser.position = 5
    /\ parser.remaining = <<>>
    /\ Fails(FirstResult, "UnterminatedString")

\* the opening brackets of text outside its strings less the closing ones
RECURSIVE Scan(_, _, _)
Scan(text, instring, escaped) ==
    IF text = <<>> THEN 0
    ELSE LET c == Head(text)
             r == Tail(text)
         IN  IF instring
             THEN IF escaped THEN Scan(r, TRUE, FALSE)
                  ELSE IF c = 92 THEN Scan(r, TRUE, TRUE)
                  ELSE IF c = 34 THEN Scan(r, FALSE, FALSE)
                  ELSE Scan(r, TRUE, FALSE)
             ELSE IF c = 34 THEN Scan(r, TRUE, FALSE)
             ELSE IF c \in {91, 123} THEN Scan(r, FALSE, FALSE) + 1
             ELSE IF c \in {93, 125} THEN Scan(r, FALSE, FALSE) - 1
             ELSE Scan(r, FALSE, FALSE)

Unmatched(text) == Scan(text, FALSE, FALSE)

\* the deepest nesting of the brackets of text
Nesting(text) ==
    LET ds == { Unmatched(SubSeq(text, 1, k)) : k \in 0..Len(text) }
    IN  CHOOSE d \in ds : \A x \in ds : x <= d

\* the characters the cursor has passed
Consumed(s) == SubSeq(s.input, 1, Len(s.input) - Len(s.remaining))

\* the parse_array and parse_object frames on the stack, and those of them that
\* have consumed their opening bracket
ActiveFrames(s) ==
    { i \in 1..Len(s.stack) : s.stack[i].fn \in {"parse_array", "parse_object"} }
EnteredFrames(s) == { i \in ActiveFrames(s) : s.stack[i].pc # "open" }

\* no routine has returned an error on this parser
NoErrorYet ==
    /\ parser.ret = NoRet \/ parser.ret.ok
    /\ \A i \in 1..Len(parser.results) : parser.results[i].ok

(***************************************************************************)
(* C19: the number of active parse_array/parse_object frames equals the    *)
(* number of opening brackets consumed outside strings and not matched by  *)
(* a consumed closing bracket, at every point of a parse that has raised   *)
(* no error (while an error is handed up, frames are popped and there are  *)
(* fewer of them).  So the stack is never deeper than the nesting of the   *)
(* input, and nothing else limits the depth.                               *)
(***************************************************************************)
C19_Frames ==
    /\ Cardinality(EnteredFrames(parser)) <= Unmatched(Consumed(parser))
    /\ NoErrorYet => Cardinality(EnteredFrames(parser)) = Unmatched(Consumed(parser))
    /\ Cardinality(ActiveFrames(parser)) <= Nesting(parser.input)

\* openers, a value and the closers of the openers: parsed, however deep
C19_NoLimit ==
    (/\ Finished(parser)
     /\ Len(doc) % 2 = 1
     /\ doc[(Len(doc) + 1) \div 2] \in {<<Ch.d1>>, <<Ch.lbracket, Ch.rbracket>>}
     /\ \A i \in 1..(Len(doc) \div 2) :
            doc[i] \in Openers /\ doc[Len(doc) + 1 - i] = Closer(doc[i]))
        => FirstResult.ok

C20_AfterOk ==
    /\ \A i \in 1..Len(parser.results) : \A j \in (i + 1)..Len(parser.results) :
          parser.results[i].ok => Fails(parser.results[j], "UnexpectedEndOfInput")
    /\ (\E i \in 1..Len(parser.results) : parser.results[i].ok) =>
          /\ parser.position = ByteLen(parser.input)
          /\ parser.remaining = <<>>

C20_Forward ==
    /\ []C20_AfterOk
    /\ [][parser'.position >= parser.position]_vars

\* a second parse() after one that returned a value has failed at the end of
\* the input
C20_Witness ==
    /\ Len(parser.results) = 2
    /\ parser.stack = <<>>
    /\ parser.results[1].ok
    /\ Fails(parser.results[2], "UnexpectedEndOfInput")
    /\ parser.position = ByteLen(parser.input)
    /\ parser.position > 0

(***************************************************************************)
(* C21: a failure found by looking at the next character consumes          *)
(* nothing.  When parse_value fails with UnexpectedCharacter or            *)
(* UnexpectedEndOfInput, when parse_null or parse_boolean fails with       *)
(* InvalidLiteral, and when the loop of an array or an object fails on a   *)
(* wrong separator or on a missing colon, the cursor is left at the        *)
(* offending character: the routine has consumed whitespace before it and  *)
(* nothing else.  A failure inside a string escape is returned after the   *)
(* offending characters have been consumed.                                *)
(***************************************************************************)
LookaheadKinds ==
    { "UnexpectedCharacter", "UnexpectedEndOfInput", "InvalidLiteral",
      "ExpectedCommaOrBracket", "ExpectedCommaOrBrace", "ExpectedColon" }
EscapeKinds == { "InvalidEscapeSequence", "InvalidUnicodeEscape", "InvalidCodePoint" }

\* the places where a routine skips whitespace and then looks at a character
Looking ==
    \/ At(parser, "parse_value", "ws_value")
    \/ At(parser, "parse_array", "ws_elem")
    \/ At(parser, "parse_object", "ws_key")
    \/ At(parser, "parse_object", "ws_member")

\* this step raises an error: the routine returns one it was not handed
Raises(kind) ==
    /\ parser.ret = NoRet
    /\ parser.stack # <<>>
    /\ \E r \in {IF Len(parser.stack) = 1 /\ parser'.results # <<>>
                 THEN parser'.results[Len(parser'.results)]
                 ELSE parser'.ret} :
          Returns(r) /\ Fails(r, kind)

\* at those places a step takes one whitespace character, and a step that
\* raises an error takes nothing
C21_Looking ==
    Looking =>
        /\ is_whitespace(peek(parser)) =>
              /\ parser'.position = parser.position + len_utf8(peek(parser))
              /\ parser'.remaining = Tail(parser.remaining)
              /\ parser'.stack = parser.stack
        /\ (\E kind \in LookaheadKinds : Raises(kind)) =>
              /\ CursorStays
              /\ ~is_whitespace(peek(parser))

\* parse_null and parse_boolean take nothing when they fail
C21_Literal ==
    (At(parser, "parse_null", "start") \/ At(parser, "parse_boolean", "start")) =>
        \/ parser'.ret.ok /\ parser'.position > parser.position
        \/ Raises("InvalidLiteral") /\ CursorStays

\* an error of those kinds is raised at those places only
C21_Where ==
    (\E kind \in LookaheadKinds : Raises(kind)) =>
        (Looking \/ At(parser, "parse_null", "start")
                 \/ At(parser, "parse_boolean", "start"))

\* a step that raises an error inside an escape has taken the backslash, or
\* the character that is wrong, with next_char
C21_Escape ==
    (\E kind \in EscapeKinds \cup {"UnterminatedString"} :
        Raises(kind) /\ peek(parser) # -1 /\ Top(parser).pc # "push_code") =>
            parser'.position >= parser.position + len_utf8(peek(parser))

\* the characters of the input before the cursor
Before(s) == Prefix(s.input, Len(s.input) - Len(s.remaining))
LastOf(text, k) == Suffix(text, Len(text) - k)

ValueStarts ==
    {Ch.n, Ch.t, Ch.f, Ch.quote, Ch.lbracket, Ch.lbrace, Ch.minus} \cup 48..57
HexDigits == (48..57) \cup (65..70) \cup (97..102)
EscapeLetters ==
    {Ch.quote, Ch.backslash, Ch.slash, Ch.b, Ch.f, Ch.n, Ch.r, Ch.t, Ch.u}

\* where the cursor is when the first parse() has failed, by the message
C21_Cursor ==
    (Finished(parser) /\ ~FirstResult.ok) =>
        LET c == peek(parser)
            m == FirstResult.e
            b == Before(parser)
        IN  /\ ByteLen(b) = parser.position
            /\ m = "Unexpected character" =>
                  c # -1 /\ ~is_whitespace(c) /\ c \notin ValueStarts
            /\ m = "Unexpected end of input" => c = -1
            /\ m = "Invalid null value" =>
                  c = Ch.n /\ ~starts_with(parser.remaining, <<110, 117, 108, 108>>)
            /\ m = "Invalid boolean value" =>
                  /\ c \in {Ch.t, Ch.f}
                  /\ ~starts_with(parser.remaining, <<116, 114, 117, 101>>)
                  /\ ~starts_with(parser.remaining, <<102, 97, 108, 115, 101>>)
            /\ m = "Expected comma or closing bracket" =>
                  c \notin {-1, Ch.comma, Ch.rbracket} /\ ~is_whitespace(c)
            /\ m = "Expected comma or closing brace" =>
                  c \notin {-1, Ch.comma, Ch.rbrace} /\ ~is_whitespace(c)
            /\ m = "Expected colon after key in object" =>
                  c # Ch.colon /\ ~is_whitespace(c)
            /\ m = "Invalid escape sequence" =>
                  /\ Len(b) >= 2
                  /\ LastOf(b, 2)[1] = Ch.backslash
                  /\ LastOf(b, 2)[2] \notin EscapeLetters
            /\ m = "Unterminated string after escape" =>
                  c = -1 /\ Len(b) >= 1 /\ LastOf(b, 1)[1] = Ch.backslash
            /\ m = "Invalid unicode escape sequence" =>
                  /\ Len(b) >= 3
                  /\ LastOf(b, 1)[1] \notin HexDigits
                  /\ \E k \in 0..3 :
                        /\ Len(b) >= k + 3
                        /\ Prefix(LastOf(b, k + 3), 2) = <<Ch.backslash, Ch.u>>
                        /\ \A j \in 3..(k + 2) : LastOf(b, k + 3)[j] \in HexDigits
            /\ m = "Incomplete unicode escape sequence" =>
                  /\ c = -1
                  /\ \E k \in 0..3 :
                        /\ Len(b) >= k + 2
                        /\ Prefix(LastOf(b, k + 2), 2) = <<Ch.backslash, Ch.u>>
                        /\ \A j \in 3..(k + 2) : LastOf(b, k + 2)[j] \in HexDigits
            /\ m = "Invalid unicode code point" =>
                  /\ Len(b) >= 6
                  /\ Prefix(LastOf(b, 6), 2) = <<Ch.backslash, Ch.u>>
                  /\ \A j \in 3..6 : LastOf(b, 6)[j] \in HexDigits

C21_Lookahead ==
    /\ []C21_Cursor
    /\ [][C21_Looking /\ C21_Literal /\ C21_Where /\ C21_Escape]_vars

\* `{"a"`, whitespace of three bytes and `1`: ExpectedColon, the cursor on
\* the 1 and the whitespace before it consumed
C21_Witness ==
    /\ Finished(parser)
    /\ Fails(FirstResult, "ExpectedColon")
    /\ peek(parser) = Ch.d1
    /\ parser.position >= 7
    /\ parser.position = ByteLen(Before(parser))
    /\ LastOf(Before(parser), 6) =
          <<Ch.lbrace, Ch.quote, Ch.a, Ch.quote, Ch.space, Ch.nbsp>>

=============================================================================
